---- MODULE Spec2Model ----
(***************************************************************************)
(* A model of stern's Tail (src/stern/tail.go): the line codec             *)
(* (splitLogLine, removeSubsecond), the resume tracker                     *)
(* (rememberLastTimestamp, GetResumeRequest, shouldSkip), the line         *)
(* pipeline (consumeLine), the stream loop (ConsumeRequest) and            *)
(* Start/Resume/Close, driven by a log source and a restart loop; of the   *)
(* OpenTelemetry transformer (src/stern/otel/transformer.go):              *)
(* deriveServiceName, parseStructuredLog, mapSeverityToOTel and EmitLog;   *)
(* and of the Tail Manager, which runs the Tails of several Targets under  *)
(* a semaphore, and the Target Watcher, which tells it of the containers   *)
(* that match the Selector, as the specification (sections 4.5 and 4.4)    *)
(* describes them.                                                         *)
(*                                                                         *)
(* Strings are sequences of one-character strings.  Indexes follow Go:     *)
(* At(s, i) is s[i] and Slice(s, lo, hi) is s[lo:hi], both 0-based.        *)
(***************************************************************************)
EXTENDS Integers, Sequences, FiniteSets, TLC

VARIABLES
    source,         \* the container's log as the log source holds it: lines
    opts,           \* TailOptions and the sinks' configuration
    carry,          \* the ResumeRequest the caller hands to the next Tail, or nil
    tailNo,         \* how many Tails of the target have been created
    state,          \* the current Tail: Idle, Streaming, Closed, Faulted or
                    \* Panicked
    closed,         \* whether the channel Tail.closed has been closed
    last,           \* Tail.last: the watermark {timestamp, lines}
    resumeRequest,  \* Tail.resumeRequest, or nil
    sinceTime,      \* Tail.Options.SinceTime, or nil
    sinceSeconds,   \* Tail.Options.SinceSeconds, or nil
    tailLines,      \* Tail.Options.TailLines, or nil
    stream,         \* the source lines (indexes) the open stream still delivers
    out,            \* what was written to Tail.out
    errOut,         \* what was written to Tail.errOut
    otelOut,        \* the records emitted to the OpenTelemetry exporter
    hist,           \* history: one entry per line passed to consumeLine
    tails,          \* history: one entry per Tail started: the options it
                    \* was created with and those it opened its stream
                    \* with, and the state it was in when Close was called
    cuts,           \* how many streams were severed in the middle of a line
    conns,          \* how many stream connections the Tail holds open
    targetMap,      \* the Tail Manager's map: for each Target the number of
                    \* its Tail among the Target's tailTasks, or 0
    tailTasks,      \* for each Target the Tails the Tail Manager has run for
                    \* it, each with the task that runs it
    permits,        \* the free slots of the Tail Manager's semaphore
    pods,           \* the cluster: for each pod whether it exists, and its
                    \* labels and annotations
    watched,        \* the Target Watcher: for each Target the snapshot it
                    \* took when the Target was discovered, or none
    notifications,  \* the notifications the Target Watcher has emitted and
                    \* the Tail Manager has not consumed yet
    fnIn,           \* the argument(s) of the pure function under check
    fnOut           \* the results of its successive applications

tailVars == <<source, opts, carry, tailNo, state, closed, last, resumeRequest,
              sinceTime, sinceSeconds, tailLines, stream, out, errOut,
              otelOut, hist, tails, cuts, conns>>

fnVars == <<fnIn, fnOut>>

mgrVars == <<targetMap, tailTasks, permits>>

watchVars == <<pods, watched, notifications>>

vars == <<tailVars, mgrVars, watchVars, fnVars>>

\* a nil *ResumeRequest, and a request
NilRequest == [nil |-> TRUE, Timestamp |-> <<>>, LinesToSkip |-> 0]

ResumeRequest(ts, n) == [nil |-> FALSE, Timestamp |-> ts, LinesToSkip |-> n]

\* a nil *int64, and an *int64
NilInt == [nil |-> TRUE, n |-> 0]

Int64(n) == [nil |-> FALSE, n |-> n]

\* a nil *metav1.Time, and a time
NilTime == [nil |-> TRUE, time |-> 0]

Time(t) == [nil |-> FALSE, time |-> t]

----------------------------------------------------------------------------
(* Strings *)

At(s, i) == s[i + 1]

Slice(s, lo, hi) == SubSeq(s, lo + 1, hi)

Digits == {"0", "1", "2", "3", "4", "5", "6", "7", "8", "9"}

\* unicode.IsDigit on one byte of the string: only the ASCII digits are digits.
IsDigit(c) == c \in Digits

\* strings.IndexRune(s, c): the index of the first c in s, or -1.
IndexRune(s, c) ==
    IF \E i \in 0..(Len(s) - 1) : At(s, i) = c
    THEN CHOOSE i \in 0..(Len(s) - 1) :
             /\ At(s, i) = c
             /\ \A j \in 0..(i - 1) : At(s, j) # c
    ELSE -1

RECURSIVE StringsUpTo(_, _)
\* every string over alphabet of length at most n
StringsUpTo(alphabet, n) ==
    IF n = 0 THEN {<<>>}
    ELSE LET shorter == StringsUpTo(alphabet, n - 1)
         IN  shorter \cup {Append(s, c) : s \in shorter, c \in alphabet}

----------------------------------------------------------------------------
(* Line codec *)

RECURSIVE ScanLastDigit(_, _, _)
\* the loop of removeSubsecond: lastIdx (the code's last) is the index of the
\* last digit at or after i, or the value it had when there is none
ScanLastDigit(timestamp, i, lastIdx) ==
    IF i >= Len(timestamp) THEN lastIdx
    ELSE ScanLastDigit(timestamp, i + 1,
                       IF IsDigit(At(timestamp, i)) THEN i ELSE lastIdx)

RECURSIVE ScanDigitRun(_, _, _)
\* a loop that stops at the first byte that is no digit (once past the dot)
ScanDigitRun(timestamp, i, lastIdx) ==
    IF i >= Len(timestamp) THEN lastIdx
    ELSE IF IsDigit(At(timestamp, i))
         THEN ScanDigitRun(timestamp, i + 1, i)
         ELSE lastIdx

\* removeSubsecond whose loop breaks at the end of the fractional run
removeSubsecondRunOnly(timestamp) ==
    LET dot == IndexRune(timestamp, ".")
    IN  IF dot = -1 THEN timestamp
        ELSE LET lastIdx == ScanDigitRun(timestamp, dot + 1, 0)
             IN  IF lastIdx = 0 THEN timestamp
                 ELSE Slice(timestamp, 0, dot)
                          \o Slice(timestamp, lastIdx + 1, Len(timestamp))

removeSubsecond(timestamp) ==
    LET dot == IndexRune(timestamp, ".")
    IN  IF dot = -1 THEN timestamp
        ELSE LET lastIdx == ScanLastDigit(timestamp, dot, 0)
             IN  IF lastIdx = 0 THEN timestamp
                 ELSE Slice(timestamp, 0, dot)
                          \o Slice(timestamp, lastIdx + 1, Len(timestamp))

\* strings.LastIndex for one character
LastIndexRune(s, c) ==
    IF \E i \in 1..Len(s) : s[i] = c
    THEN (CHOOSE i \in 1..Len(s) : s[i] = c /\ \A j \in (i + 1)..Len(s) : s[j] # c) - 1
    ELSE -1

\* splitLogLine that splits at the last space of the line
splitLogLineLastSpace(line) ==
    LET idx == LastIndexRune(line, " ")
    IN  IF idx = -1
        THEN [timestamp |-> <<>>, content |-> <<>>, err |-> TRUE]
        ELSE [timestamp |-> Slice(line, 0, idx),
              content   |-> Slice(line, idx + 1, Len(line)),
              err       |-> FALSE]

\* splitLogLine: the text before the first space and the text after it
splitLogLine(line) ==
    LET idx == IndexRune(line, " ")
    IN  IF idx = -1
        THEN [timestamp |-> <<>>, content |-> <<>>, err |-> TRUE]
        ELSE [timestamp |-> Slice(line, 0, idx),
              content   |-> Slice(line, idx + 1, Len(line)),
              err       |-> FALSE]

----------------------------------------------------------------------------
(* Resume tracker *)

\* shouldSkip that does not compare the timestamps
shouldSkipAnyTimestamp(r, timestamp) ==
    IF r.nil THEN [ret |-> FALSE, r |-> r]
    ELSE IF r.Timestamp = <<>> THEN [ret |-> FALSE, r |-> r]
    ELSE IF r.LinesToSkip <= 0 THEN [ret |-> FALSE, r |-> r]
    ELSE [ret |-> TRUE, r |-> [r EXCEPT !.LinesToSkip = @ - 1]]

\* shouldSkip that decrements a request already at zero
shouldSkipNoFloor(r, timestamp) ==
    IF r.nil THEN [ret |-> FALSE, r |-> r]
    ELSE IF r.Timestamp = <<>> THEN [ret |-> FALSE, r |-> r]
    ELSE IF r.Timestamp # timestamp THEN [ret |-> FALSE, r |-> r]
    ELSE IF r.LinesToSkip < 0 THEN [ret |-> FALSE, r |-> r]
    ELSE [ret |-> TRUE, r |-> [r EXCEPT !.LinesToSkip = @ - 1]]

\* ResumeRequest.shouldSkip: the returned value and the request afterwards
shouldSkip(r, timestamp) ==
    IF r.nil THEN [ret |-> FALSE, r |-> r]
    ELSE IF r.Timestamp = <<>> THEN [ret |-> FALSE, r |-> r]
    ELSE IF r.Timestamp # timestamp THEN [ret |-> FALSE, r |-> r]
    ELSE IF r.LinesToSkip <= 0 THEN [ret |-> FALSE, r |-> r]
    ELSE [ret |-> TRUE, r |-> [r EXCEPT !.LinesToSkip = @ - 1]]

\* rememberLastTimestamp that does not start the count again on a change
rememberLastTimestampNoReset(l, timestamp) ==
    [timestamp |-> timestamp, lines |-> l.lines + 1]

\* rememberLastTimestamp without the assignment of the new timestamp: on a
\* change only the count starts again
rememberLastTimestampCountOnly(l, timestamp) ==
    IF l.timestamp = timestamp
    THEN [l EXCEPT !.lines = @ + 1]
    ELSE [l EXCEPT !.lines = 1]

\* Tail.rememberLastTimestamp: the watermark after observing timestamp
rememberLastTimestamp(l, timestamp) ==
    IF l.timestamp = timestamp
    THEN [l EXCEPT !.lines = @ + 1]
    ELSE [timestamp |-> timestamp, lines |-> 1]

\* GetResumeRequest without the test for the empty timestamp
GetResumeRequestUnguarded(l) == ResumeRequest(l.timestamp, l.lines)

\* Tail.GetResumeRequest
GetResumeRequest(l) ==
    IF l.timestamp = <<>> THEN NilRequest
    ELSE ResumeRequest(l.timestamp, l.lines)

----------------------------------------------------------------------------
(* Timestamps as the Go time package reads them *)

DigitChars == <<"0", "1", "2", "3", "4", "5", "6", "7", "8", "9">>

DigitVal(c) == (CHOOSE n \in 1..10 : DigitChars[n] = c) - 1

AllDigits(s, lo, hi) == \A i \in lo..(hi - 1) : IsDigit(At(s, i))

Num2(s, i) == DigitVal(At(s, i)) * 10 + DigitVal(At(s, i + 1))

Num4(s, i) == Num2(s, i) * 100 + Num2(s, i + 2)

IsLeap(y) == (y % 4 = 0 /\ y % 100 # 0) \/ y % 400 = 0

DaysBeforeYear(y) ==
    365 * y + ((y - 1) \div 4) - ((y - 1) \div 100) + ((y - 1) \div 400)

CumDays == <<0, 31, 59, 90, 120, 151, 181, 212, 243, 273, 304, 334>>

DaysBeforeMonth(y, m) == CumDays[m] + (IF m > 2 /\ IsLeap(y) THEN 1 ELSE 0)

DaysIn(y, m) ==
    IF m = 2 THEN (IF IsLeap(y) THEN 29 ELSE 28)
    ELSE IF m \in {4, 6, 9, 11} THEN 30 ELSE 31

\* where the zone designator of "YYYY-MM-DDTHH:MM:SS[.fff]zone" starts: the
\* seconds may be followed by a fraction, which time.Parse accepts and skips
ZoneStart(s) ==
    IF /\ Len(s) >= 21
       /\ At(s, 19) \in {".", ","}
       /\ IsDigit(At(s, 20))
    THEN ScanDigitRun(s, 20, 19) + 1
    ELSE 19

\* the zone "Z", or "+hh:mm" / "-hh:mm", as seconds east of UTC
ParseZone(z) ==
    IF z = <<"Z">> THEN [err |-> FALSE, offset |-> 0]
    ELSE IF /\ Len(z) = 6
            /\ z[1] \in {"+", "-"}
            /\ AllDigits(z, 1, 3)
            /\ z[4] = ":"
            /\ AllDigits(z, 4, 6)
            /\ Num2(z, 1) <= 24
            /\ Num2(z, 4) <= 60
         THEN [err |-> FALSE,
               offset |-> (IF z[1] = "-" THEN -1 ELSE 1)
                              * (Num2(z, 1) * 3600 + Num2(z, 4) * 60)]
         ELSE [err |-> TRUE, offset |-> 0]

\* time.Parse(time.RFC3339, s): an error, or the instant in Unix seconds
ParseRFC3339(s) ==
    LET bad == [err |-> TRUE, time |-> 0]
    IN  IF ~ (/\ Len(s) >= 20
              /\ AllDigits(s, 0, 4)   /\ At(s, 4) = "-"
              /\ AllDigits(s, 5, 7)   /\ At(s, 7) = "-"
              /\ AllDigits(s, 8, 10)  /\ At(s, 10) = "T"
              /\ AllDigits(s, 11, 13) /\ At(s, 13) = ":"
              /\ AllDigits(s, 14, 16) /\ At(s, 16) = ":"
              /\ AllDigits(s, 17, 19))
        THEN bad
        ELSE LET y  == Num4(s, 0)
                 m  == Num2(s, 5)
                 d  == Num2(s, 8)
                 h  == Num2(s, 11)
                 mi == Num2(s, 14)
                 se == Num2(s, 17)
                 z  == ParseZone(Slice(s, ZoneStart(s), Len(s)))
             IN  IF \/ m < 1 \/ m > 12
                    \/ d < 1 \/ d > DaysIn(y, m)
                    \/ h > 23 \/ mi > 59 \/ se > 59
                    \/ z.err
                 THEN bad
                 ELSE [err  |-> FALSE,
                       time |-> (DaysBeforeYear(y) - DaysBeforeYear(1970)
                                    + DaysBeforeMonth(y, m) + d - 1) * 86400
                                + h * 3600 + mi * 60 + se - z.offset]

\* ResumeRequest.sinceTime
sinceTimeOf(r) == ParseRFC3339(r.Timestamp)

RECURSIVE Zeros(_)
Zeros(n) == IF n <= 0 THEN <<>> ELSE <<"0">> \o Zeros(n - 1)

\* TailOptions.UpdateTimezoneAndFormat with the default format
\* (TimestampFormatDefault): the timestamp with its fraction written in nine
\* digits, or an error when the timestamp does not parse
UpdateTimezoneAndFormat(ts) ==
    IF ParseRFC3339(ts).err THEN [err |-> TRUE, text |-> <<>>]
    ELSE LET zs   == ZoneStart(ts)
             frac == IF zs = 19 THEN <<>> ELSE Slice(ts, 20, zs)
             nine == IF Len(frac) >= 9 THEN Slice(frac, 0, 9)
                     ELSE frac \o Zeros(9 - Len(frac))
         IN  [err  |-> FALSE,
              text |-> Slice(ts, 0, 19) \o <<".">> \o nine \o Slice(ts, zs, Len(ts))]

----------------------------------------------------------------------------
(* Options, filters and sinks *)

Contains(s, c) == \E i \in 1..Len(s) : s[i] = c

\* TailOptions.IsExclude / IsInclude, each pattern one literal character
IsExclude(o, content) == \E c \in o.exclude : Contains(content, c)

IsInclude(o, content) ==
    o.include = {} \/ \E c \in o.include : Contains(content, c)

DefaultOpts ==
    [exclude |-> {}, include |-> {}, timestamps |-> FALSE,
     otelEnabled |-> FALSE, hasExporter |-> FALSE,
     onlyLogLines |-> FALSE, tmplFails |-> {}]

OptionSets ==
    { DefaultOpts,
      [DefaultOpts EXCEPT !.exclude = {"x"}],
      [DefaultOpts EXCEPT !.include = {"a"}, !.timestamps = TRUE],
      [DefaultOpts EXCEPT !.exclude = {"x"}, !.otelEnabled = TRUE,
                          !.hasExporter = TRUE],
      [DefaultOpts EXCEPT !.tmplFails = {"x", "o"}] }

\* "missing timestamp", the error of splitLogLine
MissingTimestamp ==
    <<"m", "i", "s", "s", "i", "n", "g", " ",
      "t", "i", "m", "e", "s", "t", "a", "m", "p">>

\* "parse error", standing for the text of a time.Parse error
ParseErrorText == <<"p", "a", "r", "s", "e", " ", "e", "r", "r", "o", "r">>

\* fmt.Sprintf("[%v] %s", err, line)
Annotated(errText, line) == <<"[">> \o errText \o <<"]", " ">> \o line

\* Tail.sprint returns an error: the template (Tail.tmpl) cannot be expanded
\* for this message; o.tmplFails holds the characters it fails on
sprintFails(o, msg) == \E c \in o.tmplFails : Contains(msg, c)

\* Print and PrintWithoutHighlight that do not report the error of sprint
PrintEffectSwallowsError(o, msg, highlight) ==
    IF sprintFails(o, msg)
    THEN [out |-> <<>>, errOut |-> <<>>]
    ELSE [out |-> <<[msg |-> msg, highlight |-> highlight]>>, errOut |-> <<>>]

\* Tail.Print (TailPrint here) and Tail.PrintWithoutHighlight: what sprint's failure or
\* success writes to errOut and to out
PrintEffect(o, msg, highlight) ==
    IF sprintFails(o, msg)
    THEN [out |-> <<>>, errOut |-> <<"expanding template failed">>]
    ELSE [out |-> <<[msg |-> msg, highlight |-> highlight]>>, errOut |-> <<>>]

TailPrint(o, msg) == PrintEffect(o, msg, TRUE)

\* PrintWithoutHighlight that writes nothing
PrintWithoutHighlightDiscards(o, msg) == [out |-> <<>>, errOut |-> <<>>]

PrintWithoutHighlight(o, msg) == PrintEffect(o, msg, FALSE)

\* Tail.emitOTelLog: the record handed to otel.EmitLog
emitOTelLog(message, rfc3339Nano) ==
    LET parsed == ParseRFC3339(rfc3339Nano)
    IN  [Body |-> message,
         Timestamp |-> IF parsed.err THEN <<"n", "o", "w">> ELSE rfc3339Nano]

----------------------------------------------------------------------------
(* The line pipeline *)

\* consumeLine that updates the watermark only for the lines it does not
\* skip: rememberLastTimestamp called after shouldSkip
consumeLineRememberLate(o, l, req, line) ==
    LET sp == splitLogLine(line)
        none == [out |-> <<>>, errOut |-> <<>>]
    IN  IF sp.err
        THEN [last |-> l, req |-> req, verdict |-> "malformed", ts |-> <<>>,
              content |-> line, otel |-> <<>>,
              print |-> PrintWithoutHighlight(o, Annotated(MissingTimestamp, line))]
        ELSE
        LET rfc3339 == removeSubsecond(sp.timestamp)
            skip    == shouldSkip(req, rfc3339)
            base    == [last |-> rememberLastTimestamp(l, rfc3339), req |-> skip.r,
                        ts |-> rfc3339, content |-> sp.content, otel |-> <<>>,
                        print |-> none]
        IN  IF skip.ret
            THEN [base EXCEPT !.last = l] @@ [verdict |-> "skipped"]
            ELSE IF IsExclude(o, sp.content) \/ ~ IsInclude(o, sp.content)
            THEN base @@ [verdict |-> "filtered"]
            ELSE [base EXCEPT !.otel = IF o.otelEnabled /\ o.hasExporter
                                       THEN <<emitOTelLog(sp.content, sp.timestamp)>>
                                       ELSE <<>>,
                              !.print = IF o.otelEnabled THEN none
                                        ELSE TailPrint(o, sp.content)]
                     @@ [verdict |-> "accepted"]

\* consumeLine that applies the content filters before the skip stage
consumeLineFilterFirst(o, l, req, line) ==
    LET sp == splitLogLine(line)
        none == [out |-> <<>>, errOut |-> <<>>]
    IN  IF sp.err
        THEN [last |-> l, req |-> req, verdict |-> "malformed", ts |-> <<>>,
              content |-> line, otel |-> <<>>,
              print |-> PrintWithoutHighlight(o, Annotated(MissingTimestamp, line))]
        ELSE
        LET rfc3339  == removeSubsecond(sp.timestamp)
            filtered == IsExclude(o, sp.content) \/ ~ IsInclude(o, sp.content)
            skip     == IF filtered THEN [ret |-> FALSE, r |-> req]
                        ELSE shouldSkip(req, rfc3339)
            base     == [last |-> rememberLastTimestamp(l, rfc3339), req |-> skip.r,
                         ts |-> rfc3339, content |-> sp.content, otel |-> <<>>,
                         print |-> none]
        IN  IF filtered
            THEN base @@ [verdict |-> "filtered"]
            ELSE IF skip.ret
            THEN base @@ [verdict |-> "skipped"]
            ELSE [base EXCEPT !.otel = IF o.otelEnabled /\ o.hasExporter
                                       THEN <<emitOTelLog(sp.content, sp.timestamp)>>
                                       ELSE <<>>,
                              !.print = IF o.otelEnabled THEN none
                                        ELSE TailPrint(o, sp.content)]
                     @@ [verdict |-> "accepted"]

\* consumeLine that emits to the exporter before it applies the content
\* filters
consumeLineExportFirst(o, l, req, line) ==
    LET sp == splitLogLine(line)
        none == [out |-> <<>>, errOut |-> <<>>]
    IN  IF sp.err
        THEN [last |-> l, req |-> req, verdict |-> "malformed", ts |-> <<>>,
              content |-> line, otel |-> <<>>,
              print |-> PrintWithoutHighlight(o, Annotated(MissingTimestamp, line))]
        ELSE
        LET rfc3339 == removeSubsecond(sp.timestamp)
            skip    == shouldSkip(req, rfc3339)
            otel    == IF o.otelEnabled /\ o.hasExporter
                       THEN <<emitOTelLog(sp.content, sp.timestamp)>>
                       ELSE <<>>
            base    == [last |-> rememberLastTimestamp(l, rfc3339), req |-> skip.r,
                        ts |-> rfc3339, content |-> sp.content, otel |-> <<>>,
                        print |-> none]
        IN  IF skip.ret
            THEN base @@ [verdict |-> "skipped"]
            ELSE IF IsExclude(o, sp.content) \/ ~ IsInclude(o, sp.content)
            THEN [base EXCEPT !.otel = otel] @@ [verdict |-> "filtered"]
            ELSE [base EXCEPT !.otel = otel,
                              !.print = IF o.otelEnabled THEN none
                                        ELSE TailPrint(o, sp.content)]
                     @@ [verdict |-> "accepted"]

\* consumeLine that remembers a line without a space as its own timestamp:
\* rememberLastTimestamp called before the error of splitLogLine is looked at
consumeLineRemembersMalformed(o, l, req, line) ==
    LET sp == splitLogLine(line)
        none == [out |-> <<>>, errOut |-> <<>>]
    IN  IF sp.err
        THEN [last |-> rememberLastTimestamp(l, removeSubsecond(line)),
              req |-> req, verdict |-> "malformed", ts |-> <<>>,
              content |-> line, otel |-> <<>>,
              print |-> PrintWithoutHighlight(o, Annotated(MissingTimestamp, line))]
        ELSE
        LET rfc3339 == removeSubsecond(sp.timestamp)
            newLast == rememberLastTimestamp(l, rfc3339)
            skip    == shouldSkip(req, rfc3339)
            base    == [last |-> newLast, req |-> skip.r, ts |-> rfc3339,
                        content |-> sp.content, otel |-> <<>>, print |-> none]
        IN  IF skip.ret
            THEN base @@ [verdict |-> "skipped"]
            ELSE IF IsExclude(o, sp.content) \/ ~ IsInclude(o, sp.content)
            THEN base @@ [verdict |-> "filtered"]
            ELSE
            LET otel == IF o.otelEnabled /\ o.hasExporter
                        THEN <<emitOTelLog(sp.content, sp.timestamp)>>
                        ELSE <<>>
                upd  == UpdateTimezoneAndFormat(sp.timestamp)
            IN  IF o.timestamps /\ upd.err
                THEN [base EXCEPT !.otel = otel,
                                  !.print = PrintWithoutHighlight(
                                      o, Annotated(ParseErrorText, line))]
                         @@ [verdict |-> "accepted"]
                ELSE
                LET shown == IF o.timestamps
                             THEN upd.text \o <<" ">> \o sp.content
                             ELSE sp.content
                IN  [base EXCEPT !.otel = otel,
                                 !.print = IF o.otelEnabled THEN none
                                           ELSE TailPrint(o, shown)]
                        @@ [verdict |-> "accepted"]

\* Tail.consumeLine: the watermark and the resume request afterwards, what
\* became of the line, and what was written to the sinks
consumeLine(o, l, req, line) ==
    LET sp == splitLogLine(line)
        none == [out |-> <<>>, errOut |-> <<>>]
    IN  IF sp.err
        THEN [last |-> l, req |-> req, verdict |-> "malformed", ts |-> <<>>,
              content |-> line, otel |-> <<>>,
              print |-> PrintWithoutHighlight(o, Annotated(MissingTimestamp, line))]
        ELSE
        LET rfc3339 == removeSubsecond(sp.timestamp)
            newLast == rememberLastTimestamp(l, rfc3339)
            skip    == shouldSkip(req, rfc3339)
            base    == [last |-> newLast, req |-> skip.r, ts |-> rfc3339,
                        content |-> sp.content, otel |-> <<>>, print |-> none]
        IN  IF skip.ret
            THEN base @@ [verdict |-> "skipped"]
            ELSE IF IsExclude(o, sp.content) \/ ~ IsInclude(o, sp.content)
            THEN base @@ [verdict |-> "filtered"]
            ELSE
            LET otel == IF o.otelEnabled /\ o.hasExporter
                        THEN <<emitOTelLog(sp.content, sp.timestamp)>>
                        ELSE <<>>
                upd  == UpdateTimezoneAndFormat(sp.timestamp)
            IN  IF o.timestamps /\ upd.err
                THEN [base EXCEPT !.otel = otel,
                                  !.print = PrintWithoutHighlight(
                                      o, Annotated(ParseErrorText, line))]
                         @@ [verdict |-> "accepted"]
                ELSE
                LET shown == IF o.timestamps
                             THEN upd.text \o <<" ">> \o sp.content
                             ELSE sp.content
                IN  [base EXCEPT !.otel = otel,
                                 !.print = IF o.otelEnabled THEN none
                                           ELSE TailPrint(o, shown)]
                        @@ [verdict |-> "accepted"]

----------------------------------------------------------------------------
(* The log source *)

\* the longest log the source holds
MaxLines == 2

\* how many times a faulted Tail is restarted
MaxRestarts == 2

\* how many streams of one run are severed in the middle of a line
MaxMidLineFaults == 1

\* "2024-01-02T03:04:"
DatePrefix ==
    <<"2", "0", "2", "4", "-", "0", "1", "-", "0", "2", "T",
      "0", "3", ":", "0", "4", ":">>

\* "2024-01-02T03:04:05.123456789Z"
ExNanoZ ==
    DatePrefix \o <<"0", "5", ".", "1", "2", "3", "4", "5", "6", "7", "8", "9", "Z">>

\* "2024-01-02T03:04:05.123+09:00"
ExNanoOffset ==
    DatePrefix \o <<"0", "5", ".", "1", "2", "3", "+", "0", "9", ":", "0", "0">>

\* "2024-01-02T03:04:05Z" and "2024-01-02T03:04:06Z"
CanonA == DatePrefix \o <<"0", "5", "Z">>

CanonB == DatePrefix \o <<"0", "6", "Z">>

\* "2024-01-02T03:04:05+09:00"
CanonOffset == DatePrefix \o <<"0", "5", "+", "0", "9", ":", "0", "0">>

\* "2024-01-02T03:04:05": no zone, so no RFC3339 timestamp
NoZone == DatePrefix \o <<"0", "5">>

\* two timestamps of the second 03:04:05Z, one of 03:04:06Z, and one of
\* 03:04:05 in a zone written as a numeric offset
TsA1 == DatePrefix \o <<"0", "5", ".", "1", "Z">>

TsA2 == DatePrefix \o <<"0", "5", ".", "2", "5", "Z">>

TsB1 == DatePrefix \o <<"0", "6", ".", "1", "Z">>

TsO1 == DatePrefix \o <<"0", "5", ".", "1", "+", "0", "9", ":", "0", "0">>

MkLine(ts, content) == ts \o <<" ">> \o content

LineA1 == MkLine(TsA1, <<"a", "b">>)

LineA2 == MkLine(TsA2, <<"x">>)

LineB1 == MkLine(TsB1, <<"a", "b">>)

LineO1 == MkLine(TsO1, <<"a", "b">>)

\* a line without a timestamp, as the API server writes when it reports an error
LineBad == <<"o", "o", "p", "s">>

LinePool == {LineA1, LineA2, LineB1, LineO1, LineBad}

Sources == UNION {[1..n -> LinePool] : n \in 0..MaxLines}

\* the timestamps [A, A, A, B, B]
ResumeExample == <<LineA1, LineA2, LineA1, LineB1, LineB1>>

\* a line with an empty timestamp: its first byte is the space
LineNoTs == MkLine(<<>>, <<"a", "b">>)

\* logs in which a line with an empty timestamp follows or precedes a
\* line at 03:04:05Z
EmptyTimestampSources ==
    {<<LineNoTs>>, <<LineA1, LineNoTs>>, <<LineNoTs, LineA1>>}

\* the time at which the streams are opened: 2024-01-02T03:04:07Z
Now == ParseRFC3339(DatePrefix \o <<"0", "7", "Z">>).time

\* PodLogOptions as Start fills them in from Tail.Options
LogOptions(sinceSecs, since, lines) ==
    [SinceSeconds |-> sinceSecs, SinceTime |-> since, TailLines |-> lines]

\* whether the source sends a line on a stream opened with SinceTime since:
\* a line is held back when its timestamp is before since
Replayed(line, since) ==
    LET sp == splitLogLine(line)
        at == ParseRFC3339(sp.timestamp)
    IN  since.nil \/ sp.err \/ at.err \/ at.time >= since.time

\* the same for SinceSeconds: a line older than that many seconds is held back
Recent(line, sinceSecs) ==
    LET sp == splitLogLine(line)
        at == ParseRFC3339(sp.timestamp)
    IN  sinceSecs.nil \/ sp.err \/ at.err \/ at.time >= Now - sinceSecs.n

\* the API server rejects a request that names both SinceSeconds and SinceTime
Rejected(lo) == ~ lo.SinceSeconds.nil /\ ~ lo.SinceTime.nil

\* GetLogs(...).Stream: the lines (as indexes of the source) the stream
\* delivers: of the last TailLines lines, those not held back
OpenLogStream(src, lo) ==
    LET from == IF lo.TailLines.nil \/ lo.TailLines.n >= Len(src)
                THEN 1
                ELSE Len(src) - lo.TailLines.n + 1
    IN  SelectSeq([j \in 1..(Len(src) - from + 1) |-> from + j - 1],
                  LAMBDA i : /\ Replayed(src[i], lo.SinceTime)
                             /\ Recent(src[i], lo.SinceSeconds))

----------------------------------------------------------------------------
(* The Tail *)

NoWatermark == [timestamp |-> <<>>, lines |-> 0]

\* Tail.printStarting
printStarting(o) ==
    IF ~ o.onlyLogLines /\ ~ o.otelEnabled THEN <<"+">> ELSE <<>>

\* Tail.printStopping
printStopping(o) ==
    IF ~ o.onlyLogLines /\ ~ o.otelEnabled THEN <<"-">> ELSE <<>>

\* the options after Resume has set SinceTime and cleared the other two
resumeOptionsKeepTailLines(since, lines) ==
    LogOptions(NilInt, since, lines)

resumeOptions(since, lines) ==
    LogOptions(NilInt, since, NilInt)

\* Tail.Start after the options are settled: the start notification, then
\* ConsumeRequest opens the stream, which may fail; once Tail.closed is
\* closed the failure may be the cancellation of the context
StartWith(req, lo, said, openOK) ==
    LET opened == IF openOK THEN OpenLogStream(source, lo) ELSE <<>>
    IN  /\ openOK => ~ Rejected(lo)
        /\ resumeRequest' = req
        /\ sinceTime' = lo.SinceTime
        /\ sinceSeconds' = lo.SinceSeconds
        /\ tailLines' = lo.TailLines
        /\ errOut' = errOut \o said \o printStarting(opts)
        /\ state' \in IF openOK THEN {"Streaming"}
                      ELSE IF closed THEN {"Faulted", "Closed"}
                      ELSE {"Faulted"}
        /\ stream' = opened
        /\ conns' = IF openOK THEN conns + 1 ELSE conns
        /\ tails' = Append(tails, [carried |-> carry, installed |-> ~ req.nil,
                                   openOK |-> openOK, stream |-> opened,
                                   options |-> lo, request |-> req,
                                   closedWhen |-> "",
                                   callerOptions |->
                                       LogOptions(sinceSeconds, sinceTime,
                                                  tailLines)])
        /\ UNCHANGED <<source, opts, carry, tailNo, closed, last, out, otelOut,
                       hist, cuts, fnVars, mgrVars, watchVars>>

\* Tail.Start on a new Tail
Start ==
    /\ state = "Idle"
    /\ carry.nil
    /\ \E openOK \in BOOLEAN :
           StartWith(resumeRequest, LogOptions(sinceSeconds, sinceTime, tailLines),
                     <<>>, openOK)

\* Resume that keeps the request it could not parse: the fallback to Start
\* runs with t.resumeRequest set
ResumeKeepsBadRequest ==
    /\ state = "Idle"
    /\ ~ carry.nil
    /\ LET since == sinceTimeOf(carry)
       IN  \E openOK \in BOOLEAN :
               IF since.err
               THEN StartWith(carry,
                              LogOptions(sinceSeconds, sinceTime, tailLines),
                              <<"failed to resume">>, openOK)
               ELSE StartWith(carry, resumeOptions(Time(since.time), tailLines),
                              <<>>, openOK)

\* Tail.Resume on a new Tail
Resume ==
    /\ state = "Idle"
    /\ ~ carry.nil
    /\ LET since == sinceTimeOf(carry)
       IN  \E openOK \in BOOLEAN :
               IF since.err
               THEN StartWith(resumeRequest,
                              LogOptions(sinceSeconds, sinceTime, tailLines),
                              <<"failed to resume">>, openOK)
               ELSE StartWith(carry, resumeOptions(Time(since.time), tailLines),
                              <<>>, openOK)

\* ConsumeRequest returning without closing the stream it opened
streamCloseSkipped == UNCHANGED conns

\* ConsumeRequest's deferred stream.Close(), run on every return after the
\* stream was opened
streamClose == conns' = conns - 1

\* what one call of consumeLine wrote to a sink, with the number of the
\* call (the place of the line in the order of arrival)
Written(records) ==
    [i \in 1..Len(records) |-> records[i] @@ [arrival |-> Len(hist) + 1]]

\* Consume that writes ahead of what the sink already holds
ConsumeWritesAhead(idx, text, eol) ==
    \E r \in {consumeLine(opts, last, resumeRequest, text)} :
        /\ last' = r.last
        /\ resumeRequest' = r.req
        /\ out' = Written(r.print.out) \o out
        /\ errOut' = errOut \o r.print.errOut
        /\ otelOut' = Written(r.otel) \o otelOut
        /\ hist' = Append(hist, [tail |-> tailNo, idx |-> idx, line |-> text,
                                 eol |-> eol, ts |-> r.ts, content |-> r.content,
                                 verdict |-> r.verdict])

\* one call of consumeLine on the text read from line idx of the source;
\* eol: the text ended with the newline
Consume(idx, text, eol) ==
    \E r \in {consumeLine(opts, last, resumeRequest, text)} :
        /\ last' = r.last
        /\ resumeRequest' = r.req
        /\ out' = out \o Written(r.print.out)
        /\ errOut' = errOut \o r.print.errOut
        /\ otelOut' = otelOut \o Written(r.otel)
        /\ hist' = Append(hist, [tail |-> tailNo, idx |-> idx, line |-> text,
                                 eol |-> eol, ts |-> r.ts, content |-> r.content,
                                 verdict |-> r.verdict])

\* ConsumeRequest: ReadBytes returns a whole line and no error
ReadLine ==
    /\ state = "Streaming"
    /\ stream # <<>>
    /\ Consume(Head(stream), source[Head(stream)], TRUE)
    /\ stream' = Tail(stream)
    /\ UNCHANGED <<source, opts, carry, tailNo, state, closed, sinceTime,
                   sinceSeconds, tailLines, tails, cuts, conns, fnVars,
                   mgrVars, watchVars>>

\* ReadEOF that does not look at the bytes ReadBytes returns with io.EOF
ReadEOFDropsRest ==
    /\ state = "Streaming"
    /\ Len(stream) <= 1
    /\ state' = "Closed"
    /\ stream' = <<>>
    /\ streamClose
    /\ UNCHANGED <<source, opts, carry, tailNo, closed, last, resumeRequest,
                   sinceTime, sinceSeconds, tailLines, out, errOut, otelOut,
                   hist, tails, cuts, fnVars, mgrVars, watchVars>>

\* ConsumeRequest: ReadBytes returns io.EOF, with no bytes or with the last
\* line of the stream, which the source did not end with a newline
ReadEOF ==
    /\ state = "Streaming"
    /\ \/ /\ stream = <<>>
          /\ UNCHANGED <<last, resumeRequest, out, errOut, otelOut, hist>>
       \/ /\ Len(stream) = 1
          /\ Consume(Head(stream), source[Head(stream)], FALSE)
    /\ state' = "Closed"
    /\ stream' = <<>>
    /\ streamClose
    /\ UNCHANGED <<source, opts, carry, tailNo, closed, sinceTime,
                   sinceSeconds, tailLines, tails, cuts, fnVars, mgrVars, watchVars>>

\* ConsumeRequest: ReadBytes returns the p bytes read so far and an error
\* that is not io.EOF; Start returns it as it is (Faulted) or, when it is
\* context.Canceled, returns nil (Closed)
ReadFails(ending) ==
    /\ \E p \in 0..(IF stream = <<>> THEN 0 ELSE Len(source[Head(stream)])) :
           LET midLine == stream # <<>> /\ 0 < p /\ p < Len(source[Head(stream)])
           IN  /\ midLine => cuts < MaxMidLineFaults
               /\ cuts' = IF midLine THEN cuts + 1 ELSE cuts
               /\ IF p = 0
                  THEN UNCHANGED <<last, resumeRequest, out, errOut, otelOut, hist>>
                  ELSE Consume(Head(stream), Slice(source[Head(stream)], 0, p),
                               FALSE)
    /\ state' = ending
    /\ stream' = <<>>
    /\ streamClose
    /\ UNCHANGED <<source, opts, carry, tailNo, closed, sinceTime,
                   sinceSeconds, tailLines, tails, fnVars, mgrVars, watchVars>>

\* the stream fails with a transport error
ReadError ==
    /\ state = "Streaming"
    /\ ReadFails("Faulted")

\* the read is cancelled: the goroutine of Start has seen Tail.closed closed
\* and cancelled the context
ReadCanceled ==
    /\ state = "Streaming"
    /\ closed
    /\ ReadFails("Closed")

\* Tail.Close: the stop notification, then close(t.closed), which panics
\* when the channel is closed already
Close ==
    /\ state # "Panicked"
    /\ errOut' = errOut \o printStopping(opts)
    /\ closed' = TRUE
    /\ state' = IF closed THEN "Panicked" ELSE state
    /\ tails' = IF tails = <<>> \/ closed
                THEN tails
                ELSE [tails EXCEPT ![Len(tails)].closedWhen = state]
    /\ UNCHANGED <<source, opts, carry, tailNo, last, resumeRequest, sinceTime,
                   sinceSeconds, tailLines, stream, out, otelOut, hist, cuts,
                   conns, fnVars, mgrVars, watchVars>>

\* the restart loop: a new Tail for the target of a faulted one, handed the
\* faulted Tail's GetResumeRequest
Restart ==
    /\ state = "Faulted"
    /\ tailNo <= MaxRestarts
    /\ tailNo' = tailNo + 1
    /\ carry' = GetResumeRequest(last)
    /\ state' = "Idle"
    /\ last' = NoWatermark
    /\ resumeRequest' = NilRequest
    /\ sinceTime' = NilTime
    /\ sinceSeconds' = NilInt
    /\ tailLines' = NilInt
    /\ stream' = <<>>
    /\ UNCHANGED <<source, opts, closed, out, errOut, otelOut, hist, tails,
                   cuts, conns, fnVars, mgrVars, watchVars>>

NewTail ==
    /\ tailNo = 1
    /\ state = "Idle"
    /\ closed = FALSE
    /\ last = NoWatermark
    /\ resumeRequest = NilRequest
    /\ sinceTime = NilTime
    /\ stream = <<>>
    /\ out = <<>>
    /\ errOut = <<>>
    /\ otelOut = <<>>
    /\ hist = <<>>
    /\ tails = <<>>
    /\ cuts = 0
    /\ conns = 0

\* the Targets the Target Watcher reports
Targets == {"t1", "t2", "t3"}

\* the concurrency budget of the Tail Manager
maxConcurrentTails == 2

\* the pods of the cluster, and the Targets that are the containers of each
Pods == {"p1"}

ContainersOf(p) == <<"t1", "t2", "t3">>

ContainerName(t) ==
    IF t = "t1" THEN "app" ELSE IF t = "t2" THEN "sidecar" ELSE "init"

\* a pod that does not exist, and the pods that do: labels is the value of
\* the label app, annotations the value of the pod's one annotation
NoPod == [present |-> FALSE, labels |-> "x", annotations |-> "a"]

PodStates == [present : {TRUE}, labels : {"x", "y"}, annotations : {"a", "b"}]

\* a Target Watcher that has seen no pod
NoWatcher ==
    /\ pods = [p \in Pods |-> NoPod]
    /\ watched = [t \in Targets |-> NoPod]
    /\ notifications = <<>>

\* a Tail Manager that tracks no Target
NoManager ==
    /\ NoWatcher
    /\ targetMap = [t \in Targets |-> 0]
    /\ tailTasks = [t \in Targets |-> <<>>]
    /\ permits = maxConcurrentTails

\* a target tailed from a fresh Start and restarted whenever it faults
Init ==
    /\ source \in Sources
    /\ opts \in OptionSets
    /\ carry = NilRequest
    /\ sinceSeconds = NilInt
    /\ tailLines = NilInt
    /\ NewTail
    /\ NoManager
    /\ fnIn = <<>>
    /\ fnOut = <<>>

Next == Start \/ Resume \/ ReadLine \/ ReadEOF \/ ReadError \/ Restart

Spec == Init /\ [][Next]_vars

\* the largest LinesToSkip of a request handed in from outside
MaxSkip == 2

\* the requests a caller hands to Resume: nil (it calls Start), requests for
\* the seconds of the log, and requests whose timestamp is no RFC3339
CallerRequests ==
    {NilRequest}
        \cup {ResumeRequest(ts, n) : ts \in {CanonA, CanonB}, n \in 0..MaxSkip}
        \cup {ResumeRequest(NoZone, 1), ResumeRequest(<<>>, 1)}

\* SinceSeconds and TailLines as the caller sets them in Tail.Options:
\* neither, or the last second and the last line
CallerLogOptions ==
    {LogOptions(NilInt, NilTime, NilInt), LogOptions(Int64(1), NilTime, Int64(1))}

\* one Tail, started or resumed by its caller, until its Start returns
InitTail ==
    /\ source \in Sources \cup {ResumeExample} \cup EmptyTimestampSources
    /\ opts \in OptionSets
    /\ carry \in CallerRequests
    /\ \E lo \in CallerLogOptions :
           sinceSeconds = lo.SinceSeconds /\ tailLines = lo.TailLines
    /\ NewTail
    /\ NoManager
    /\ fnIn = <<>>
    /\ fnOut = <<>>

NextTail == Start \/ Resume \/ ReadLine \/ ReadEOF \/ ReadError

SpecTail == InitTail /\ [][NextTail]_vars

\* the settings of the filters and of the sinks: each filter set or not,
\* timestamps shown or not, OpenTelemetry enabled or not, with an exporter
\* or with none
SinkOptionSets ==
    { [DefaultOpts EXCEPT !.exclude = ex, !.include = inc, !.timestamps = ts,
                          !.otelEnabled = oe, !.hasExporter = he] :
          ex \in {{}, {"x"}}, inc \in {{}, {"a"}},
          ts \in BOOLEAN, oe \in BOOLEAN, he \in BOOLEAN }

\* one Tail under every setting of the filters and of the sinks, started or
\* resumed by its caller, until its Start returns
InitSinks ==
    /\ source \in Sources \cup {ResumeExample} \cup EmptyTimestampSources
    /\ opts \in SinkOptionSets
    /\ carry \in {NilRequest, ResumeRequest(CanonA, 1)}
    /\ sinceSeconds = NilInt
    /\ tailLines = NilInt
    /\ NewTail
    /\ NoManager
    /\ fnIn = <<>>
    /\ fnOut = <<>>

SpecSinks == InitSinks /\ [][NextTail]_vars

\* one Tail whose caller may call Close at any time, before, while and after
\* Start runs
NextStop == NextTail \/ ReadCanceled \/ Close

SpecStop == InitTail /\ [][NextStop]_vars

----------------------------------------------------------------------------
(* The OpenTelemetry transformer (src/stern/otel/transformer.go) *)

LowerLetters ==
    <<"a", "b", "c", "d", "e", "f", "g", "h", "i", "j", "k", "l", "m", "n",
      "o", "p", "q", "r", "s", "t", "u", "v", "w", "x", "y", "z">>

UpperLetters ==
    <<"A", "B", "C", "D", "E", "F", "G", "H", "I", "J", "K", "L", "M", "N",
      "O", "P", "Q", "R", "S", "T", "U", "V", "W", "X", "Y", "Z">>

\* the rune U+0131, the dotless small i, whose upper case is 'I'
DotlessI == "U+0131"

\* unicode.ToUpper on one rune of the alphabet of the model
ToUpperRune(c) ==
    IF \E i \in 1..Len(LowerLetters) : LowerLetters[i] = c
    THEN UpperLetters[CHOOSE i \in 1..Len(LowerLetters) : LowerLetters[i] = c]
    ELSE IF c = DotlessI THEN "I"
    ELSE c

\* strings.ToUpper
ToUpper(s) == [i \in 1..Len(s) |-> ToUpperRune(s[i])]

\* a nil map[string]string, and a map
NilMap == [nil |-> TRUE, m |-> <<>>]

Map(m) == [nil |-> FALSE, m |-> m]

\* val, ok := labels[key]
Lookup(labels, key) ==
    IF ~ labels.nil /\ key \in DOMAIN labels.m
    THEN [ok |-> TRUE, val |-> labels.m[key]]
    ELSE [ok |-> FALSE, val |-> <<>>]

LabelName ==
    <<"a", "p", "p", ".", "k", "u", "b", "e", "r", "n", "e", "t", "e", "s",
      ".", "i", "o", "/", "n", "a", "m", "e">>

LabelApp == <<"a", "p", "p">>

LabelK8sApp == <<"k", "8", "s", "-", "a", "p", "p">>

\* deriveServiceName that prefers the label app to app.kubernetes.io/name
deriveServiceNameAppFirst(labels, podName) ==
    IF Lookup(labels, LabelApp).ok /\ Lookup(labels, LabelApp).val # <<>>
    THEN Lookup(labels, LabelApp).val
    ELSE IF Lookup(labels, LabelName).ok /\ Lookup(labels, LabelName).val # <<>>
    THEN Lookup(labels, LabelName).val
    ELSE IF Lookup(labels, LabelK8sApp).ok /\ Lookup(labels, LabelK8sApp).val # <<>>
    THEN Lookup(labels, LabelK8sApp).val
    ELSE podName

\* deriveServiceName
deriveServiceName(labels, podName) ==
    IF Lookup(labels, LabelName).ok /\ Lookup(labels, LabelName).val # <<>>
    THEN Lookup(labels, LabelName).val
    ELSE IF Lookup(labels, LabelApp).ok /\ Lookup(labels, LabelApp).val # <<>>
    THEN Lookup(labels, LabelApp).val
    ELSE IF Lookup(labels, LabelK8sApp).ok /\ Lookup(labels, LabelK8sApp).val # <<>>
    THEN Lookup(labels, LabelK8sApp).val
    ELSE podName

\* the white space the model's strings hold: strings.TrimSpace removes it
\* from both ends, and JSON allows it between tokens
IsSpace(c) == c = " "

RECURSIVE TrimLeft(_)
TrimLeft(s) == IF s # <<>> /\ IsSpace(Head(s)) THEN TrimLeft(Tail(s)) ELSE s

RECURSIVE TrimRight(_)
TrimRight(s) ==
    IF s # <<>> /\ IsSpace(s[Len(s)]) THEN TrimRight(SubSeq(s, 1, Len(s) - 1))
    ELSE s

\* strings.TrimSpace
TrimSpace(s) == TrimRight(TrimLeft(s))

\* strings.HasPrefix
HasPrefix(s, prefix) ==
    Len(s) >= Len(prefix) /\ SubSeq(s, 1, Len(prefix)) = prefix

\* the values json.Unmarshal stores in a map[string]interface{}: a string,
\* a float64, a bool, nil, or a map[string]interface{}
JString(s) == [type |-> "string", s |-> s, n |-> 0, m |-> <<>>]

JNumber(n) == [type |-> "float64", s |-> <<>>, n |-> n, m |-> <<>>]

JBool(b) == [type |-> "bool", s |-> <<>>, n |-> IF b THEN 1 ELSE 0, m |-> <<>>]

JNull == [type |-> "nil", s |-> <<>>, n |-> 0, m |-> <<>>]

JObject(m) == [type |-> "map", s |-> <<>>, n |-> 0, m |-> m]

\* what a failed parse returns
JFail == [ok |-> FALSE, next |-> 0, val |-> JNull]

JOk(next, val) == [ok |-> TRUE, next |-> next, val |-> val]

RECURSIVE SkipSpace(_, _)
\* the position of the first character at or after i that is no white space
SkipSpace(s, i) ==
    IF i <= Len(s) /\ IsSpace(s[i]) THEN SkipSpace(s, i + 1) ELSE i

\* a JSON string at position i: the characters up to the next quotation
\* mark (the model's strings hold no escape sequences)
ParseString(s, i) ==
    IF i > Len(s) \/ s[i] # "\""
    THEN JFail
    ELSE LET ends == {j \in (i + 1)..Len(s) : s[j] = "\""}
         IN  IF ends = {} THEN JFail
             ELSE LET j == CHOOSE e \in ends : \A f \in ends : e <= f
                  IN  JOk(j + 1, JString(SubSeq(s, i + 1, j - 1)))

RECURSIVE DigitsValue(_)
DigitsValue(ds) ==
    IF ds = <<>> THEN 0
    ELSE DigitsValue(SubSeq(ds, 1, Len(ds) - 1)) * 10 + DigitVal(ds[Len(ds)])

RECURSIVE DigitRunEnd(_, _)
\* the position after the digits that start at i
DigitRunEnd(s, i) ==
    IF i <= Len(s) /\ IsDigit(s[i]) THEN DigitRunEnd(s, i + 1) ELSE i

\* a JSON number at position i: digits, with no leading zero
ParseNumber(s, i) ==
    LET j == DigitRunEnd(s, i)
    IN  IF j = i \/ (s[i] = "0" /\ j > i + 1) THEN JFail
        ELSE JOk(j, JNumber(DigitsValue(SubSeq(s, i, j - 1))))

\* the literal word at position i
ParseLiteral(s, i, word, val) ==
    IF i + Len(word) - 1 <= Len(s) /\ SubSeq(s, i, i + Len(word) - 1) = word
    THEN JOk(i + Len(word), val)
    ELSE JFail

RECURSIVE ParseValue(_, _)
RECURSIVE ParseMembers(_, _, _)

\* a JSON object at position i, where s[i] is the opening brace
ParseObject(s, i) ==
    LET j == SkipSpace(s, i + 1)
    IN  IF j > Len(s) THEN JFail
        ELSE IF s[j] = "}" THEN JOk(j + 1, JObject(<<>>))
        ELSE ParseMembers(s, j, <<>>)

\* the members of an object from the key at position i on; a key that
\* comes again replaces the value it had
ParseMembers(s, i, acc) ==
    LET key == ParseString(s, i)
    IN  IF ~ key.ok THEN JFail
        ELSE
        LET colon == SkipSpace(s, key.next)
        IN  IF colon > Len(s) \/ s[colon] # ":" THEN JFail
            ELSE
            LET v == ParseValue(s, colon + 1)
            IN  IF ~ v.ok THEN JFail
                ELSE
                LET k    == key.val.s
                    more == [x \in DOMAIN acc \cup {k} |->
                                 IF x = k THEN v.val ELSE acc[x]]
                    sep  == SkipSpace(s, v.next)
                IN  IF sep > Len(s) THEN JFail
                    ELSE IF s[sep] = "}" THEN JOk(sep + 1, JObject(more))
                    ELSE IF s[sep] = ","
                    THEN ParseMembers(s, SkipSpace(s, sep + 1), more)
                    ELSE JFail

\* a JSON value at or after position i
ParseValue(s, i) ==
    LET j == SkipSpace(s, i)
    IN  IF j > Len(s) THEN JFail
        ELSE IF s[j] = "{" THEN ParseObject(s, j)
        ELSE IF s[j] = "\"" THEN ParseString(s, j)
        ELSE IF IsDigit(s[j]) THEN ParseNumber(s, j)
        ELSE IF s[j] = "t" THEN ParseLiteral(s, j, <<"t", "r", "u", "e">>, JBool(TRUE))
        ELSE IF s[j] = "f"
        THEN ParseLiteral(s, j, <<"f", "a", "l", "s", "e">>, JBool(FALSE))
        ELSE IF s[j] = "n" THEN ParseLiteral(s, j, <<"n", "u", "l", "l">>, JNull)
        ELSE JFail

\* json.Unmarshal([]byte(body), &parsed) for a body that starts with a
\* brace: the object, with nothing but white space after it
Unmarshal(body) ==
    LET r == ParseObject(body, 1)
    IN  IF r.ok /\ SkipSpace(body, r.next) > Len(body)
        THEN [err |-> FALSE, parsed |-> r.val.m]
        ELSE [err |-> TRUE, parsed |-> <<>>]

KeyMsg == <<"m", "s", "g">>

KeyMessage == <<"m", "e", "s", "s", "a", "g", "e">>

KeyMessageUpper == <<"M", "e", "s", "s", "a", "g", "e">>

KeyLevel == <<"l", "e", "v", "e", "l">>

KeySeverity == <<"s", "e", "v", "e", "r", "i", "t", "y">>

KeyLevelname == <<"l", "e", "v", "e", "l", "n", "a", "m", "e">>

\* the first of the keys whose value in the map is a string, as the loops of
\* parseStructuredLog find it, or 0
FirstStringKey(parsed, keys) ==
    LET hits == {i \in 1..Len(keys) :
                     keys[i] \in DOMAIN parsed /\ parsed[keys[i]].type = "string"}
    IN  IF hits = {} THEN 0 ELSE CHOOSE i \in hits : \A j \in hits : i <= j

\* delete(parsed, key)
Delete(parsed, key) == [k \in DOMAIN parsed \ {key} |-> parsed[k]]

\* a nil map[string]interface{}, and a map
NilAttrs == [nil |-> TRUE, m |-> <<>>]

Attrs(m) == [nil |-> FALSE, m |-> m]

\* what parseStructuredLog returns for a body it does not take for JSON
NotStructured(body) ==
    [message |-> body, severity |-> <<>>, structuredAttrs |-> NilAttrs,
     isStructured |-> FALSE]

\* parseStructuredLog
parseStructuredLog(body0) ==
    LET body == TrimSpace(body0)
    IN  IF ~ HasPrefix(body, <<"{">>) THEN NotStructured(body)
        ELSE IF Unmarshal(body).err THEN NotStructured(body)
        ELSE
        LET parsed   == Unmarshal(body).parsed
            msgKeys  == <<KeyMsg, KeyMessage, KeyMessageUpper>>
            sevKeys  == <<KeyLevel, KeySeverity, KeyLevelname>>
            mi       == FirstStringKey(parsed, msgKeys)
            message  == IF mi = 0 THEN <<>> ELSE parsed[msgKeys[mi]].s
            afterMsg == IF mi = 0 THEN parsed ELSE Delete(parsed, msgKeys[mi])
            si       == FirstStringKey(afterMsg, sevKeys)
        IN  [message |-> IF message = <<>> THEN body ELSE message,
             severity |-> IF si = 0 THEN <<>> ELSE ToUpper(afterMsg[sevKeys[si]].s),
             structuredAttrs |->
                 Attrs(IF si = 0 THEN afterMsg ELSE Delete(afterMsg, sevKeys[si])),
             isStructured |-> TRUE]

SevDEBUG == <<"D", "E", "B", "U", "G">>

SevINFO == <<"I", "N", "F", "O">>

SevWARN == <<"W", "A", "R", "N">>

SevWARNING == <<"W", "A", "R", "N", "I", "N", "G">>

SevERROR == <<"E", "R", "R", "O", "R">>

SevFATAL == <<"F", "A", "T", "A", "L">>

SevCRITICAL == <<"C", "R", "I", "T", "I", "C", "A", "L">>

\* mapSeverityToOTel that compares the string as it is
mapSeverityToOTelExact(severity) ==
    CASE severity = SevDEBUG -> "SeverityDebug"
      [] severity = SevINFO -> "SeverityInfo"
      [] severity \in {SevWARN, SevWARNING} -> "SeverityWarn"
      [] severity = SevERROR -> "SeverityError"
      [] severity \in {SevFATAL, SevCRITICAL} -> "SeverityFatal"
      [] OTHER -> "SeverityUndefined"

\* mapSeverityToOTel
mapSeverityToOTel(severity) ==
    LET upper == ToUpper(severity)
    IN  CASE upper = SevDEBUG -> "SeverityDebug"
          [] upper = SevINFO -> "SeverityInfo"
          [] upper \in {SevWARN, SevWARNING} -> "SeverityWarn"
          [] upper = SevERROR -> "SeverityError"
          [] upper \in {SevFATAL, SevCRITICAL} -> "SeverityFatal"
          [] OTHER -> "SeverityUndefined"

\* the values of log attributes: log.StringValue, log.Float64Value,
\* log.BoolValue
StringValue(s) == [kind |-> "String", s |-> s, n |-> 0]

Float64Value(n) == [kind |-> "Float64", s |-> <<>>, n |-> n]

BoolValue(n) == [kind |-> "Bool", s |-> <<>>, n |-> n]

\* log.String(key, value)
LogString(key, value) == [Key |-> key, Value |-> StringValue(value)]

\* the bytes of the model's strings in ASCII order
ByteOrder ==
    <<" ", "\"", ",", "-", ".", "/", "0", "1", "2", "3", "4", "5", "6",
      "7", "8", "9", ":", "A", "B", "C", "D", "E", "F", "G", "H", "I", "J",
      "K", "L", "M", "N", "O", "P", "Q", "R", "S", "T", "U", "V", "W", "X",
      "Y", "Z", "_", "a", "b", "c", "d", "e", "f", "g", "h", "i", "j", "k",
      "l", "m", "n", "o", "p", "q", "r", "s", "t", "u", "v", "w", "x", "y",
      "z", "{", "}">>

ByteOf(c) == CHOOSE i \in 1..Len(ByteOrder) : ByteOrder[i] = c

RECURSIVE StringLess(_, _)
\* a < b as Go compares strings
StringLess(a, b) ==
    IF b = <<>> THEN FALSE
    ELSE IF a = <<>> THEN TRUE
    ELSE IF Head(a) = Head(b) THEN StringLess(Tail(a), Tail(b))
    ELSE ByteOf(Head(a)) < ByteOf(Head(b))

RECURSIVE SortedKeys(_)
\* the keys in the order json.Marshal writes the entries of a map
SortedKeys(keys) ==
    IF keys = {} THEN <<>>
    ELSE LET least == CHOOSE k \in keys :
                          \A other \in keys \ {k} : StringLess(k, other)
         IN  <<least>> \o SortedKeys(keys \ {least})

RECURSIVE NumberText(_)
\* a whole number as json.Marshal writes a float64
NumberText(n) ==
    IF n < 10 THEN <<DigitChars[n + 1]>>
    ELSE NumberText(n \div 10) \o <<DigitChars[(n % 10) + 1]>>

RECURSIVE Marshal(_)
RECURSIVE MarshalEntries(_, _)

\* the entries of the map for the keys, separated by commas
MarshalEntries(m, keys) ==
    IF keys = <<>> THEN <<>>
    ELSE <<"\"">> \o Head(keys) \o <<"\"", ":">> \o Marshal(m[Head(keys)])
             \o (IF Len(keys) > 1 THEN <<",">> ELSE <<>>)
             \o MarshalEntries(m, Tail(keys))

\* json.Marshal of a value json.Unmarshal has stored
Marshal(v) ==
    CASE v.type = "string" -> <<"\"">> \o v.s \o <<"\"">>
      [] v.type = "float64" -> NumberText(v.n)
      [] v.type = "bool" -> IF v.n = 1 THEN <<"t", "r", "u", "e">>
                            ELSE <<"f", "a", "l", "s", "e">>
      [] v.type = "map" ->
             <<"{">> \o MarshalEntries(v.m, SortedKeys(DOMAIN v.m)) \o <<"}">>
      [] OTHER -> <<"n", "u", "l", "l">>

\* convertToLogKeyValue
convertToLogKeyValue(v) ==
    CASE v.type = "string" -> StringValue(v.s)
      [] v.type = "float64" -> Float64Value(v.n)
      [] v.type = "bool" -> BoolValue(v.n)
      [] v.type = "map" -> StringValue(Marshal(v))
      [] OTHER -> StringValue(<<>>)

AttrServiceName == <<"s", "e", "r", "v", "i", "c", "e", ".", "n", "a", "m", "e">>

AttrHostName == <<"h", "o", "s", "t", ".", "n", "a", "m", "e">>

AttrNamespace ==
    <<"k", "8", "s", ".", "n", "a", "m", "e", "s", "p", "a", "c", "e", ".",
      "n", "a", "m", "e">>

AttrPodName == <<"k", "8", "s", ".", "p", "o", "d", ".", "n", "a", "m", "e">>

AttrContainerName ==
    <<"k", "8", "s", ".", "c", "o", "n", "t", "a", "i", "n", "e", "r", ".",
      "n", "a", "m", "e">>

AttrNodeName == <<"k", "8", "s", ".", "n", "o", "d", "e", ".", "n", "a", "m", "e">>

LabelPrefix == <<"k", "8", "s", ".", "p", "o", "d", ".", "l", "a", "b", "e", "l", ".">>

AnnotationPrefix ==
    <<"k", "8", "s", ".", "p", "o", "d", ".", "a", "n", "n", "o", "t", "a",
      "t", "i", "o", "n", ".">>

\* every order in which a range over the keys of a map can visit them
Orderings(keys) ==
    {o \in [1..Cardinality(keys) -> keys] :
         \A i, j \in 1..Cardinality(keys) : i # j => o[i] # o[j]}

\* EmitLog: the attributes the range over record.Labels appends, the keys
\* visited in order
labelAttrs(record, order) ==
    [i \in 1..Len(order) |->
        LogString(LabelPrefix \o order[i], record.Labels.m[order[i]])]

\* EmitLog: the attributes the range over record.Annotations appends
annotationAttrs(record, order) ==
    [i \in 1..Len(order) |->
        LogString(AnnotationPrefix \o order[i],
                  record.Annotations.m[order[i]])]

\* EmitLog: the attributes the range over structuredAttrs appends
structuredFieldAttrs(structuredAttrs, order) ==
    [i \in 1..Len(order) |->
        [Key |-> order[i],
         Value |-> convertToLogKeyValue(structuredAttrs.m[order[i]])]]

\* the service, host and Kubernetes attributes with host.name left out
metadataAttrsWithoutHost(record) ==
    <<LogString(AttrServiceName,
                deriveServiceName(record.Labels, record.PodName))>>
        \o (IF record.Namespace # <<>>
            THEN <<LogString(AttrNamespace, record.Namespace)>> ELSE <<>>)
        \o (IF record.PodName # <<>>
            THEN <<LogString(AttrPodName, record.PodName)>> ELSE <<>>)
        \o (IF record.ContainerName # <<>>
            THEN <<LogString(AttrContainerName, record.ContainerName)>>
            ELSE <<>>)
        \o (IF record.NodeName # <<>>
            THEN <<LogString(AttrNodeName, record.NodeName)>> ELSE <<>>)

\* EmitLog: the service, host and Kubernetes attributes
metadataAttrs(record) ==
    <<LogString(AttrServiceName,
                deriveServiceName(record.Labels, record.PodName))>>
        \o (IF record.NodeName # <<>>
            THEN <<LogString(AttrHostName, record.NodeName)>> ELSE <<>>)
        \o (IF record.Namespace # <<>>
            THEN <<LogString(AttrNamespace, record.Namespace)>> ELSE <<>>)
        \o (IF record.PodName # <<>>
            THEN <<LogString(AttrPodName, record.PodName)>> ELSE <<>>)
        \o (IF record.ContainerName # <<>>
            THEN <<LogString(AttrContainerName, record.ContainerName)>>
            ELSE <<>>)
        \o (IF record.NodeName # <<>>
            THEN <<LogString(AttrNodeName, record.NodeName)>> ELSE <<>>)

\* EmitLog: the records the logger may be handed, one for each order in
\* which the three ranges may visit their maps
EmitLog(record) ==
    UNION {
        {<<[Timestamp |-> record.Timestamp,
            ObservedTimestamp |-> <<"n", "o", "w">>,
            Body |-> StringValue(parsed.message),
            SeveritySet |-> parsed.severity # <<>>,
            Severity |-> IF parsed.severity # <<>>
                         THEN mapSeverityToOTel(parsed.severity)
                         ELSE "SeverityUndefined",
            Attributes |->
                metadataAttrs(record)
                    \o labelAttrs(record, labelOrder)
                    \o annotationAttrs(record, annotationOrder)
                    \o (IF parsed.isStructured
                        THEN structuredFieldAttrs(parsed.structuredAttrs,
                                                  fieldOrder)
                        ELSE <<>>)]>> :
             labelOrder \in Orderings(DOMAIN record.Labels.m),
             annotationOrder \in Orderings(DOMAIN record.Annotations.m),
             fieldOrder \in Orderings(DOMAIN parsed.structuredAttrs.m)} :
        parsed \in {parseStructuredLog(record.Body)}}

----------------------------------------------------------------------------
(* The pure functions, applied on their own *)

\* the longest string of the exhaustive inputs of removeSubsecond
MaxLen == 4

\* how many times in a row a function is applied to its own result
MaxApply == 2

\* the longest timestamp of the exhaustive inputs of shouldSkip
MaxTsLen == 1

CanonAlphabet == {"1", ".", "Z", "+"}

CanonInputs ==
    StringsUpTo(CanonAlphabet, MaxLen)
        \cup {ExNanoZ, ExNanoOffset, CanonA, CanonOffset}

SkipTimestamps == StringsUpTo(CanonAlphabet, MaxTsLen) \cup {CanonA, CanonB}

SkipRequests ==
    {NilRequest}
        \cup {ResumeRequest(ts, n) : ts \in SkipTimestamps, n \in (-1)..MaxSkip}

\* what the Tail's variables hold while a pure function is applied
NoTail ==
    /\ source = <<>>
    /\ opts = DefaultOpts
    /\ carry = NilRequest
    /\ sinceSeconds = NilInt
    /\ tailLines = NilInt
    /\ NewTail
    /\ NoManager

InitCanon ==
    /\ fnIn \in CanonInputs
    /\ fnOut = <<>>
    /\ NoTail

\* removeSubsecond applied to the input, then to its own result
ApplyRemoveSubsecond ==
    /\ Len(fnOut) < MaxApply
    /\ fnOut' = Append(fnOut, removeSubsecond(IF fnOut = <<>> THEN fnIn
                                              ELSE fnOut[Len(fnOut)]))
    /\ UNCHANGED <<fnIn, tailVars, mgrVars, watchVars>>

SpecCanon == InitCanon /\ [][ApplyRemoveSubsecond]_vars

InitShouldSkip ==
    /\ fnIn \in [r : SkipRequests, timestamp : SkipTimestamps]
    /\ fnOut = <<>>
    /\ NoTail

\* shouldSkip called on the request, then again on the request it left
ApplyShouldSkip ==
    /\ Len(fnOut) < MaxApply
    /\ fnOut' = Append(fnOut, shouldSkip(IF fnOut = <<>> THEN fnIn.r
                                         ELSE fnOut[Len(fnOut)].r,
                                         fnIn.timestamp))
    /\ UNCHANGED <<fnIn, tailVars, mgrVars, watchVars>>

SpecShouldSkip == InitShouldSkip /\ [][ApplyShouldSkip]_vars

\* the longest line of the exhaustive inputs of splitLogLine
MaxLineLen == 4

\* "not-a-valid-line"
ExNotValid ==
    <<"n", "o", "t", "-", "a", "-", "v", "a", "l", "i", "d", "-",
      "l", "i", "n", "e">>

\* "2024-01-02T03:04:05.0Z" and "2024-01-02T03:04:05.0Z hello"
ExTimestamp == DatePrefix \o <<"0", "5", ".", "0", "Z">>

ExHello == MkLine(ExTimestamp, <<"h", "e", "l", "l", "o">>)

SplitInputs ==
    StringsUpTo({"a", " ", "Z"}, MaxLineLen)
        \cup LinePool \cup {LineNoTs, ExNotValid, ExHello}

InitSplit ==
    /\ fnIn \in SplitInputs
    /\ fnOut = <<>>
    /\ NoTail

\* splitLogLine applied to the input
ApplySplitLogLine ==
    /\ fnOut = <<>>
    /\ fnOut' = <<splitLogLine(fnIn)>>
    /\ UNCHANGED <<fnIn, tailVars, mgrVars, watchVars>>

SpecSplit == InitSplit /\ [][ApplySplitLogLine]_vars

\* the longest string of the exhaustive inputs of mapSeverityToOTel
MaxSevLen == 4

\* the lower-case and upper-case forms of a letter
CaseForms(c) ==
    {c} \cup {LowerLetters[i] : i \in {j \in 1..Len(UpperLetters) : UpperLetters[j] = c}}
        \cup (IF c = "I" THEN {DotlessI} ELSE {})

RECURSIVE Casings(_)
\* the word in every letter case
Casings(word) ==
    IF word = <<>> THEN {<<>>}
    ELSE {<<c>> \o rest : c \in CaseForms(Head(word)), rest \in Casings(Tail(word))}

SeverityNames ==
    {SevDEBUG, SevINFO, SevWARN, SevWARNING, SevERROR, SevFATAL, SevCRITICAL}

\* the level names in every letter case, every string over a few letters,
\* and strings that only come close to a level name
SeverityInputs ==
    UNION {Casings(name) : name \in SeverityNames}
        \cup StringsUpTo({"W", "a", "R", "n"}, MaxSevLen)
        \cup {<<"u", "n", "k", "n", "o", "w", "n">>, <<"T", "R", "A", "C", "E">>, <<"I", "N", "F", "O", "S">>, <<" ", "i", "n", "f", "o">>, <<"w", "a", "r", "n", " ">>, <<"e", "r", "r">>}

InitSeverity ==
    /\ fnIn \in SeverityInputs
    /\ fnOut = <<>>
    /\ NoTail

\* mapSeverityToOTel applied to the input
ApplyMapSeverityToOTel ==
    /\ fnOut = <<>>
    /\ fnOut' = <<mapSeverityToOTel(fnIn)>>
    /\ UNCHANGED <<fnIn, tailVars, mgrVars, watchVars>>

SpecSeverity == InitSeverity /\ [][ApplyMapSeverityToOTel]_vars

LabelVersion == <<"v", "e", "r", "s", "i", "o", "n">>

\* the values of a label: empty, and two that differ
LabelValues == {<<>>, <<"x">>, <<"y">>}

\* every map that gives some of the keys a value
MapsOver(keys, values) ==
    UNION {[ks -> values] : ks \in SUBSET keys}

\* the pod's labels: nil, or any of the three service labels and one other
\* label, each absent or with any of the values
LabelMaps ==
    {NilMap} \cup {Map(m) : m \in MapsOver({LabelName, LabelApp, LabelK8sApp,
                                             LabelVersion}, LabelValues)}

PodNames == {<<"p", "o", "d", "-", "1">>, <<>>}

InitService ==
    /\ fnIn \in [labels : LabelMaps, podName : PodNames]
    /\ fnOut = <<>>
    /\ NoTail

\* deriveServiceName applied to the input
ApplyDeriveServiceName ==
    /\ fnOut = <<>>
    /\ fnOut' = <<deriveServiceName(fnIn.labels, fnIn.podName)>>
    /\ UNCHANGED <<fnIn, tailVars, mgrVars, watchVars>>

SpecService == InitService /\ [][ApplyDeriveServiceName]_vars

\* the most fields of the JSON objects among the inputs of parseStructuredLog
MaxFields == 2

KeyUser == <<"u", "s", "e", "r">>

\* the keys of the fields of a log statement: the message keys, the
\* severity keys, and one other
FieldKeys ==
    {KeyMsg, KeyMessage, KeyMessageUpper, KeyLevel, KeySeverity, KeyLevelname,
     KeyUser}

\* the values of the fields: a string, the empty string, a number, an object
FieldValues == {JString(<<"w", "a", "r", "n">>), JString(<<>>), JNumber(7), JObject(<<>>)}

\* the fields of a log statement, in the order they are written
FieldLists ==
    UNION {[1..n -> [key : FieldKeys, val : FieldValues]] : n \in 0..MaxFields}

\* a value of FieldValues as JSON text
RenderValue(v) ==
    CASE v.type = "string" -> <<"\"">> \o v.s \o <<"\"">>
      [] v.type = "float64" -> <<DigitChars[v.n + 1]>>
      [] v.type = "map" -> <<"{", "}">>
      [] OTHER -> <<"n", "u", "l", "l">>

RECURSIVE RenderMembers(_, _)
RenderMembers(fields, gap) ==
    IF fields = <<>> THEN <<>>
    ELSE LET f == Head(fields)
         IN  <<"\"">> \o f.key \o <<"\"", ":">> \o gap \o RenderValue(f.val)
                 \o (IF Len(fields) > 1 THEN <<",">> \o gap ELSE <<>>)
                 \o RenderMembers(Tail(fields), gap)

\* the log statement as the container writes it: compact, with a space
\* after each colon and comma, or with a space before and after the object
RenderObject(fields, style) ==
    LET gap == IF style = "spaced" THEN <<" ">> ELSE <<>>
        pad == IF style = "padded" THEN <<" ">> ELSE <<>>
    IN  pad \o <<"{">> \o RenderMembers(fields, gap) \o <<"}">> \o pad

Styles == {"compact", "spaced", "padded"}

\* the value the object gives a key: that of the last field with the key
ValueOf(fields, key) ==
    fields[CHOOSE i \in 1..Len(fields) :
               /\ fields[i].key = key
               /\ \A j \in (i + 1)..Len(fields) : fields[j].key # key].val

KeysOf(fields) == {fields[i].key : i \in 1..Len(fields)}

\* bodies that are JSON objects, each with the fields it was written from
ObjectBodies ==
    {[isObject |-> TRUE, fields |-> f, body |-> RenderObject(f, st)] :
         f \in FieldLists, st \in Styles}

\* every proper prefix of s
ProperPrefixes(s) == {SubSeq(s, 1, n) : n \in 0..(Len(s) - 1)}

\* bodies that are no JSON object: plain text, text with white space around
\* it, JSON values that are no object, objects that are cut short, and
\* objects with a flaw
TextBodies ==
    {<<"h", "e", "l", "l", "o">>, <<" ", "a", "t", " ", "m", "a", "i", "n">>, <<"d", "o", "n", "e", " ">>, <<>>, <<" ">>,
     <<"[", "\"", "a", "\"", "]">>, <<"\"", "h", "i", "\"">>, <<"n", "u", "l", "l">>, <<"7">>,
     <<"{", "\"", "m", "s", "g", "\"", ":", "\"", "h", "i", "\"", "}", " ", "x">>, <<"{", "\"", "m", "s", "g", "\"", ":", "\"", "h", "i", "\"", "}", "}">>, <<"x", " ", "{", "\"", "m", "s", "g", "\"", ":", "\"", "h", "i", "\"", "}">>,
     <<"{", "\"", "m", "s", "g", "\"", " ", "\"", "h", "i", "\"", "}">>, <<"{", "m", "s", "g", ":", "\"", "h", "i", "\"", "}">>,
     <<"{", "\"", "n", "\"", ":", "0", "7", "}">>, <<"{", "\"", "m", "s", "g", "\"", ":", "\"", "h", "i", "\"", ",", "}">>}
        \cup UNION {ProperPrefixes(RenderObject(f, "compact")) :
                        f \in [1..1 -> [key : FieldKeys, val : FieldValues]]}

ParseInputs ==
    ObjectBodies
        \cup {[isObject |-> FALSE, fields |-> <<>>, body |-> b] : b \in TextBodies}

InitParse ==
    /\ fnIn \in ParseInputs
    /\ fnOut = <<>>
    /\ NoTail

\* parseStructuredLog applied to the body
ApplyParseStructuredLog ==
    /\ fnOut = <<>>
    /\ fnOut' = <<parseStructuredLog(fnIn.body)>>
    /\ UNCHANGED <<fnIn, tailVars, mgrVars, watchVars>>

SpecParse == InitParse /\ [][ApplyParseStructuredLog]_vars

LabelNote == <<"n", "o", "t", "e">>

LabelOwner == <<"o", "w", "n", "e", "r">>

\* the bodies of the records: plain text, plain text with a leading space,
\* and JSON objects with and without message and severity, with a field of
\* every type, and with a field named as an attribute of the pod
EmitBodies ==
    {<<"h", "i">>, <<" ", "h", "i">>,
          <<"{", "\"", "l", "e", "v", "e", "l", "\"", ":", "\"", "i", "n", "f",
       "o", "\"", ",", "\"", "m", "s", "g", "\"", ":", "\"", "h", "i",
       "\"", ",", "\"", "u", "s", "e", "r", "\"", ":", "7", "}">>,
          <<"{", "\"", "s", "e", "r", "v", "i", "c", "e", ".", "n", "a", "m",
       "e", "\"", ":", "\"", "x", "\"", ",", "\"", "m", "s", "g", "\"",
       ":", "\"", "h", "i", "\"", "}">>,
          <<"{", "\"", "m", "s", "g", "\"", ":", "\"", "\"", "}">>,
          <<"{", "\"", "l", "e", "v", "e", "l", "\"", ":", "\"", "t", "r", "a",
       "c", "e", "\"", ",", "\"", "u", "s", "e", "r", "\"", ":", "{", "\"",
       "b", "\"", ":", "7", ",", "\"", "a", "\"", ":", "\"", "x", "\"",
       "}", "}">>,
          <<"{", "\"", "a", "\"", ":", "n", "u", "l", "l", ",", "\"", "b", "\"",
       ":", "t", "r", "u", "e", "}">>}

\* the records handed to EmitLog: each field of the pod metadata set or
\* empty, the labels and the annotations nil, empty or set
LogRecords ==
    [Timestamp : {CanonA},
     Body : EmitBodies,
     Namespace : {<<"n", "s">>, <<>>},
     PodName : {<<"p", "o", "d", "-", "1">>, <<>>},
     ContainerName : {<<"c">>, <<>>},
     NodeName : {<<"n", "1">>, <<>>},
     Labels : {NilMap, Map(<<>>), Map(LabelApp :> <<"x">>),
               Map(LabelApp :> <<"x">> @@ LabelVersion :> <<"y">>)},
     Annotations : {NilMap, Map(LabelNote :> <<"y">>),
                    Map(LabelNote :> <<"y">> @@ LabelOwner :> <<"x">>)}]

InitEmit ==
    /\ fnIn \in LogRecords
    /\ fnOut = <<>>
    /\ NoTail

\* one call of EmitLog: fnOut is what the logger has been handed
ApplyEmitLog ==
    /\ fnOut = <<>>
    /\ \E handed \in EmitLog(fnIn) : fnOut' = fnOut \o handed
    /\ UNCHANGED <<fnIn, tailVars, mgrVars, watchVars>>

SpecEmit == InitEmit /\ [][ApplyEmitLog]_vars

----------------------------------------------------------------------------
(* The Tail Manager (specification, section 4.5), running the Targets' Tails *)

\* how many Tails the Tail Manager runs in all, restarts included
MaxTails == 4

\* the watermarks a Tail may hold when it ends Faulted: it has observed no
\* line, or two lines of one timestamp
FaultWatermarks ==
    {NoWatermark,
     rememberLastTimestamp(rememberLastTimestamp(NoWatermark, CanonA), CanonA)}

\* a Tail the Tail Manager runs for a Target, and its task, which waits for a
\* semaphore slot before it starts the Tail; restartOf is the faulted Tail of
\* the Target that it restarts, or 0
NewTask(request, restartOf) ==
    [phase |-> "Waiting", holds |-> FALSE, stop |-> FALSE,
     last |-> NoWatermark, carried |-> request, restartOf |-> restartOf,
     restarted |-> FALSE]

\* the Tails: the k-th Tail of Target t is <<t, k>>
Tasks == {i \in Targets \X (1..MaxTails) : i[2] <= Len(tailTasks[i[1]])}

Task(i) == tailTasks[i[1]][i[2]]

\* the Target is still desired and this Tail is the one tracked for it
Tracked(i) == targetMap[i[1]] = i[2]

\* the Tails there are, and one more for each Faulted Tail not restarted
Committed ==
    Cardinality(Tasks)
        + Cardinality({i \in Tasks : /\ Task(i).phase = "Faulted"
                                     /\ ~Task(i).restarted})

\* TargetAdded: ignored when the Target is tracked; otherwise a task goes on
\* to acquire a slot, and then creates, starts and registers a Tail for it
TargetAdded(t) ==
    /\ IF targetMap[t] # 0
       THEN UNCHANGED mgrVars
       ELSE /\ Committed < MaxTails
            /\ tailTasks' = [tailTasks EXCEPT
                   ![t] = Append(@, NewTask(NilRequest, 0))]
            /\ UNCHANGED <<targetMap, permits>>
    /\ UNCHANGED <<tailVars, fnVars>>

\* a semaphore that hands out a slot whether or not one is free
AcquireSlotUnbounded == permits' = permits - 1

\* the task acquires a semaphore slot: it is suspended while none is free
AcquireSlot ==
    /\ permits > 0
    /\ permits' = permits - 1

\* the waiting task acquires a slot, starts its Tail (Start, or Resume with
\* the request it carries) and registers it
StartTail(i) ==
    /\ Task(i).phase = "Waiting"
    /\ AcquireSlot
    /\ tailTasks' = [tailTasks EXCEPT ![i[1]][i[2]].phase = "Streaming",
                                      ![i[1]][i[2]].holds = TRUE]
    /\ targetMap' = [targetMap EXCEPT ![i[1]] = i[2]]
    /\ UNCHANGED <<tailVars, watchVars, fnVars>>

\* the Tail ends Faulted, having observed some lines: the stream could not be
\* opened, or a read failed
TailFaults(i) ==
    /\ Task(i).phase = "Streaming"
    /\ Committed < MaxTails
    /\ \E l \in FaultWatermarks :
           tailTasks' = [tailTasks EXCEPT ![i[1]][i[2]].phase = "Faulted",
                                          ![i[1]][i[2]].last = l]
    /\ UNCHANGED <<targetMap, permits, tailVars, watchVars, fnVars>>

\* the Tail ends Closed: the stream ended cleanly, or the Tail was stopped
TailEnds(i) ==
    /\ Task(i).phase = "Streaming"
    /\ tailTasks' = [tailTasks EXCEPT ![i[1]][i[2]].phase = "Closed"]
    /\ UNCHANGED <<targetMap, permits, tailVars, watchVars, fnVars>>

\* the task of a Tail that has ended releases its slot
ReleaseSlot(i) ==
    /\ Task(i).phase \in {"Faulted", "Closed"}
    /\ Task(i).holds
    /\ permits' = permits + 1
    /\ tailTasks' = [tailTasks EXCEPT ![i[1]][i[2]].holds = FALSE]
    /\ UNCHANGED <<targetMap, tailVars, watchVars, fnVars>>

\* a Tail that ended Faulted and has released its slot is restarted while
\* its Target is still desired: it stays registered and re-enters the
\* admission queue, carrying the ResumeRequest of the faulted run
RestartTail(i) ==
    /\ Task(i).phase = "Faulted"
    /\ ~Task(i).holds
    /\ ~Task(i).restarted
    /\ Tracked(i)
    /\ tailTasks' = [tailTasks EXCEPT
           ![i[1]] = Append([@ EXCEPT ![i[2]].restarted = TRUE],
                            NewTask(GetResumeRequest(Task(i).last), i[2]))]
    /\ targetMap' = [targetMap EXCEPT ![i[1]] = Len(tailTasks[i[1]]) + 1]
    /\ UNCHANGED <<permits, tailVars, watchVars, fnVars>>

\* TargetRemoved: the Target is no longer desired; its Tail is stopped and
\* removed from the map, and a restart still waiting for a slot is given up
TargetRemoved(t) ==
    /\ IF targetMap[t] = 0
       THEN UNCHANGED mgrVars
       ELSE /\ targetMap' = [targetMap EXCEPT ![t] = 0]
            /\ tailTasks' = [tailTasks EXCEPT
                   ![t][targetMap[t]] =
                       IF @.phase = "Waiting"
                       THEN [@ EXCEPT !.phase = "Cancelled", !.stop = TRUE]
                       ELSE [@ EXCEPT !.stop = TRUE]]
            /\ UNCHANGED permits
    /\ UNCHANGED <<tailVars, fnVars>>

InitManager ==
    /\ fnIn = <<>>
    /\ fnOut = <<>>
    /\ NoTail

NextManager ==
    \/ \E t \in Targets : TargetAdded(t) /\ UNCHANGED watchVars
    \/ \E t \in Targets : TargetRemoved(t) /\ UNCHANGED watchVars
    \/ \E i \in Tasks : StartTail(i)
    \/ \E i \in Tasks : TailFaults(i)
    \/ \E i \in Tasks : TailEnds(i)
    \/ \E i \in Tasks : ReleaseSlot(i)
    \/ \E i \in Tasks : RestartTail(i)

SpecManager == InitManager /\ [][NextManager]_vars

----------------------------------------------------------------------------

(* The Target Watcher (specification, section 4.4), notifying the Tail     *)
(* Manager                                                                 *)

\* the Selector: labelSelector "app=x", containerInclude "^app$" and no
\* containerExclude; the pods are of the one namespace and pass the name
\* pattern
selector ==
    [labelSelector |-> "x", containerInclude |-> "app",
     containerExclude |-> ""]

\* a container matches iff the pod passes the pod filters and the container
\* name matches include but not exclude
Matches(pod, t) ==
    /\ pod.present
    /\ pod.labels = selector.labelSelector
    /\ ContainerName(t) = selector.containerInclude
    /\ ContainerName(t) # selector.containerExclude

\* a Target Watcher that announces a matching container on every event of
\* its pod, tracked or not
NotificationOnEveryUpdate(t, pod) ==
    IF Matches(pod, t)
    THEN <<[kind |-> "TargetAdded", target |-> t]>>
    ELSE IF watched[t].present
    THEN <<[kind |-> "TargetRemoved", target |-> t]>>
    ELSE <<>>

\* what the Target Watcher emits for one container of a pod it has an event
\* for: TargetAdded when the container newly satisfies the selector and is
\* not tracked, TargetRemoved when a tracked one no longer does or the pod
\* is deleted, and nothing when the match outcome is as it was
Notification(t, pod) ==
    IF Matches(pod, t) /\ ~watched[t].present
    THEN <<[kind |-> "TargetAdded", target |-> t]>>
    ELSE IF ~Matches(pod, t) /\ watched[t].present
    THEN <<[kind |-> "TargetRemoved", target |-> t]>>
    ELSE <<>>

RECURSIVE Emissions(_, _)
\* the notifications for the containers of the pod, in the pod's order
Emissions(containers, pod) ==
    IF containers = <<>> THEN <<>>
    ELSE Notification(Head(containers), pod)
             \o Emissions(Tail(containers), pod)

\* the Target Watcher reads the next cluster event, for pod p in the state
\* pod, once the Tail Manager has taken what it emitted before: it evaluates
\* the Selector against each container, emits, and keeps for each matching
\* container the snapshot of its discovery
HandleEvent(p, pod) ==
    /\ notifications = <<>>
    /\ pods' = [pods EXCEPT ![p] = pod]
    /\ notifications' = Emissions(ContainersOf(p), pod)
    /\ watched' =
           [t \in Targets |->
               IF \A k \in 1..Len(ContainersOf(p)) : ContainersOf(p)[k] # t
               THEN watched[t]
               ELSE IF ~Matches(pod, t) THEN NoPod
               ELSE IF watched[t].present THEN watched[t]
               ELSE pod]
    /\ UNCHANGED <<mgrVars, tailVars, fnVars>>

PodAdded(p) ==
    /\ ~pods[p].present
    /\ \E pod \in PodStates : HandleEvent(p, pod)

PodUpdated(p) ==
    /\ pods[p].present
    /\ \E pod \in PodStates \ {pods[p]} : HandleEvent(p, pod)

PodDeleted(p) ==
    /\ pods[p].present
    /\ HandleEvent(p, NoPod)

\* the Tail Manager consumes the next notification
NotifyAdded ==
    /\ notifications # <<>>
    /\ Head(notifications).kind = "TargetAdded"
    /\ TargetAdded(Head(notifications).target)
    /\ notifications' = Tail(notifications)
    /\ UNCHANGED <<pods, watched>>

NotifyRemoved ==
    /\ notifications # <<>>
    /\ Head(notifications).kind = "TargetRemoved"
    /\ TargetRemoved(Head(notifications).target)
    /\ notifications' = Tail(notifications)
    /\ UNCHANGED <<pods, watched>>

InitWatcher == InitManager

NextWatcher ==
    \/ \E p \in Pods : PodAdded(p)
    \/ \E p \in Pods : PodUpdated(p)
    \/ \E p \in Pods : PodDeleted(p)
    \/ NotifyAdded
    \/ NotifyRemoved
    \/ \E i \in Tasks : StartTail(i)
    \/ \E i \in Tasks : TailFaults(i)
    \/ \E i \in Tasks : TailEnds(i)
    \/ \E i \in Tasks : ReleaseSlot(i)
    \/ \E i \in Tasks : RestartTail(i)

SpecWatcher == InitWatcher /\ [][NextWatcher]_vars

----------------------------------------------------------------------------

(* What the properties speak of *)

\* the lines the n-th Tail passed to consumeLine
TailHist(n) == SelectSeq(hist, LAMBDA e : e.tail = n)

WellFormed(e) == e.verdict # "malformed"

\* how many entries at the end of h share the timestamp of its last entry
TrailingRun(h) ==
    Cardinality({i \in 1..Len(h) :
                    \A j \in i..Len(h) : h[j].ts = h[Len(h)].ts})

PassesFilters(content) == ~ IsExclude(opts, content) /\ IsInclude(opts, content)

\* the bytes of the model's strings in ASCII order
CharOrder ==
    <<" ", "+", "-", ".", "0", "1", "2", "3", "4", "5", "6", "7", "8", "9",
      ":", "T", "Z", "[", "]", "a", "b", "o", "p", "s", "x">>

Code(c) == CHOOSE i \in 1..Len(CharOrder) : CharOrder[i] = c

RECURSIVE StrLeq(_, _)
\* a <= b as Go compares strings; for canonical timestamps of one zone this
\* is "a is not later than b"
StrLeq(a, b) ==
    IF a = <<>> THEN TRUE
    ELSE IF b = <<>> THEN FALSE
    ELSE IF Head(a) = Head(b) THEN StrLeq(Tail(a), Tail(b))
    ELSE Code(Head(a)) < Code(Head(b))

\* the canonical timestamps of the well-formed lines among the lines idxs
CanonOf(idxs) ==
    LET wf == SelectSeq(idxs, LAMBDA i : ~ splitLogLine(source[i]).err)
    IN  [j \in 1..Len(wf) |-> removeSubsecond(splitLogLine(source[wf[j]]).timestamp)]

NonDecreasing(tss) ==
    \A j \in 1..(Len(tss) - 1) : StrLeq(tss[j], tss[j + 1])

\* every line of the source carries a UTC ("Z") timestamp and the lines are
\* in the order of their timestamps
SourceOrderedUTC ==
    /\ \A i \in 1..Len(source) :
           LET sp == splitLogLine(source[i])
           IN  ~ sp.err /\ sp.timestamp[Len(sp.timestamp)] = "Z"
    /\ NonDecreasing(CanonOf([i \in 1..Len(source) |-> i]))

----------------------------------------------------------------------------
(* Properties of the pure functions *)

\* C9: canonicalization is idempotent: applying removeSubsecond to its own
\* result changes nothing, for every input string; and
\* 2024-01-02T03:04:05.123456789Z maps to 2024-01-02T03:04:05Z.
C9_CanonIdempotent ==
    /\ \A i \in 2..Len(fnOut) : fnOut[i] = fnOut[1]
    /\ (fnIn = ExNanoZ /\ Len(fnOut) >= 1) => fnOut[1] = CanonA

C9_Witness ==
    fnIn = ExNanoZ /\ Len(fnOut) = 2 /\ fnOut[1] # fnIn

\* what C10 says removeSubsecond returns: t without its first '.' and the
\* digits that follow it directly
StripFraction(t) ==
    LET dot == IndexRune(t, ".")
    IN  IF dot = -1 THEN t
        ELSE Slice(t, 0, dot) \o Slice(t, ScanDigitRun(t, dot + 1, dot) + 1, Len(t))

\* C10: canonicalization removes only the fractional seconds: for a
\* timestamp, removeSubsecond returns it without the first '.' and the digits
\* directly after it, the zone designator ('Z' or a numeric offset) kept.
C10_RemovesOnlyFraction ==
    (Len(fnOut) >= 1 /\ ~ ParseRFC3339(fnIn).err) => fnOut[1] = StripFraction(fnIn)

\* the request a call of shouldSkip was made on
SkipArg(i) == IF i = 1 THEN fnIn.r ELSE fnOut[i - 1].r

\* shouldSkip's result for call i is "skip and decrement" exactly when cond
SkipsExactlyWhen(i, cond) ==
    /\ fnOut[i].ret <=> cond
    /\ fnOut[i].r = IF cond THEN [SkipArg(i) EXCEPT !.LinesToSkip = @ - 1]
                    ELSE SkipArg(i)

\* C5 as stated: shouldSkip(ts) returns true and decrements LinesToSkip iff
\* the request is non-nil, its Timestamp equals ts and LinesToSkip > 0, for
\* every ts and request timestamp, the empty string included.
C5_Original ==
    \A i \in 1..Len(fnOut) :
        SkipsExactlyWhen(i, /\ ~ SkipArg(i).nil
                            /\ SkipArg(i).Timestamp = fnIn.timestamp
                            /\ SkipArg(i).LinesToSkip > 0)

\* C5 amended: shouldSkip(ts) returns true and decrements LinesToSkip iff the
\* request is non-nil, its Timestamp is not empty and equals ts, and
\* LinesToSkip > 0; otherwise it returns false and leaves the request as it is.
C5_ShouldSkip ==
    \A i \in 1..Len(fnOut) :
        SkipsExactlyWhen(i, /\ ~ SkipArg(i).nil
                            /\ SkipArg(i).Timestamp # <<>>
                            /\ SkipArg(i).Timestamp = fnIn.timestamp
                            /\ SkipArg(i).LinesToSkip > 0)

C5_Witness ==
    /\ Len(fnOut) = 2
    /\ fnIn.r = ResumeRequest(CanonA, 1)
    /\ fnOut[1].ret
    /\ fnOut[1].r.LinesToSkip = 0
    /\ ~ fnOut[2].ret

----------------------------------------------------------------------------
(* Properties of one Tail *)

\* the request the first Tail was resumed with, as it was handed in
Given == tails[1].carried

\* line i of the history is a well-formed line at the request's timestamp
AtRequest(i) == WellFormed(hist[i]) /\ hist[i].ts = Given.Timestamp

\* the lines the first Tail skipped so far
Skipped == {i \in 1..Len(hist) : hist[i].verdict = "skipped"}

\* C4: resume correctness over a line sequence: with a ResumeRequest {T, n},
\* n >= 0, installed, the skip stage drops exactly the first min(n, number of
\* lines at T) lines whose canonical timestamp is T and passes every other
\* line; LinesToSkip is n less the lines dropped and never below zero. For
\* the timestamps [A,A,A,B,B] and {A,2} the first two lines are dropped and
\* the third A and both B lines are emitted.
C4_ResumeCorrectness ==
    (tails # <<>> /\ tails[1].installed) =>
        /\ \A i \in 1..Len(hist) :
               i \in Skipped <=>
                   /\ AtRequest(i)
                   /\ Cardinality({j \in 1..i : AtRequest(j)}) <= Given.LinesToSkip
        /\ resumeRequest = [Given EXCEPT !.LinesToSkip = @ - Cardinality(Skipped)]
        /\ resumeRequest.LinesToSkip >= 0
        /\ (/\ source = ResumeExample
            /\ Given = ResumeRequest(CanonA, 2)
            /\ opts = DefaultOpts
            /\ state = "Closed")
           => /\ [i \in 1..Len(hist) |-> hist[i].verdict]
                  = <<"skipped", "skipped", "accepted", "accepted", "accepted">>
              /\ [i \in 1..Len(out) |-> out[i].msg]
                  = <<<<"a", "b">>, <<"a", "b">>, <<"a", "b">>>>

C4_Witness ==
    /\ source = ResumeExample
    /\ tails # <<>>
    /\ tails[1].installed
    /\ Given = ResumeRequest(CanonA, 2)
    /\ opts = DefaultOpts
    /\ state = "Closed"
    /\ Len(out) = 3

\* the step passes a well-formed line to consumeLine
Observes == Len(hist') = Len(hist) + 1 /\ WellFormed(hist'[Len(hist')])

\* C6: watermark count rule: each observation of a canonical timestamp
\* stores it as the watermark's timestamp, and makes the line count 1 when it
\* differs from the timestamp stored before and one more than before when it
\* is the same; nothing else changes the watermark of a Tail.
C6_WatermarkCountRule ==
    [][ /\ Observes =>
            LET seen == hist'[Len(hist')].ts
            IN  /\ last'.timestamp = seen
                /\ last'.lines = IF last.timestamp = seen THEN last.lines + 1 ELSE 1
        /\ (~ Observes /\ tailNo' = tailNo) => last' = last ]_vars

C6_Witness ==
    /\ source = ResumeExample
    /\ Len(hist) = 4
    /\ hist[3].ts = CanonA
    /\ last = [timestamp |-> CanonB, lines |-> 1]

\* ts is an RFC3339 timestamp in UTC; such timestamps compare as strings the
\* way they compare in time
IsUTC(ts) == ~ ParseRFC3339(ts).err /\ ts[Len(ts)] = "Z"

\* C7 as stated: the watermark timestamp of a Tail never becomes earlier
\* than a value it held before, after any sequence of consumed lines (here
\* for the steps from one UTC timestamp to another).
C7_Original ==
    [][ (tailNo' = tailNo /\ IsUTC(last.timestamp) /\ IsUTC(last'.timestamp))
            => StrLeq(last.timestamp, last'.timestamp) ]_vars

\* the stream of the current Tail delivers its well-formed lines in the
\* order of their canonical timestamps
StreamOrdered ==
    tails # <<>> => NonDecreasing(CanonOf(tails[Len(tails)].stream))

\* C7 amended: the watermark timestamp of a Tail is the canonical timestamp
\* of the last well-formed line it consumed; it never becomes earlier than
\* a value it held before provided the stream delivers its well-formed lines
\* in non-decreasing order of their canonical timestamps.
C7_WatermarkMonotone ==
    [][ /\ Observes => last'.timestamp = hist'[Len(hist')].ts
        /\ (tailNo' = tailNo /\ StreamOrdered)
               => StrLeq(last.timestamp, last'.timestamp) ]_vars

C7_Witness ==
    /\ StreamOrdered
    /\ Len(hist) >= 2
    /\ hist[1].ts = CanonA
    /\ last.timestamp = CanonB

\* C8: the watermark is updated once for every successfully parsed line and
\* before any dropping decision: whether a line is then skipped, filtered
\* out or emitted, it counts; GetResumeRequest gives the timestamp of the
\* last well-formed line read and the number of well-formed lines read in a
\* row at that timestamp, not the number emitted (and nil while that
\* timestamp is the empty string).
C8_WatermarkCountsLinesRead ==
    LET read == SelectSeq(TailHist(tailNo), WellFormed)
    IN  IF read = <<>>
        THEN last = NoWatermark /\ GetResumeRequest(last) = NilRequest
        ELSE /\ last = [timestamp |-> read[Len(read)].ts, lines |-> TrailingRun(read)]
             /\ GetResumeRequest(last)
                    = IF read[Len(read)].ts = <<>>
                      THEN NilRequest
                      ELSE ResumeRequest(read[Len(read)].ts, TrailingRun(read))

C8_Witness ==
    /\ Len(hist) = 3
    /\ hist[1].verdict = "skipped"
    /\ hist[2].verdict = "filtered"
    /\ hist[3].verdict = "accepted"
    /\ GetResumeRequest(last) = ResumeRequest(CanonA, 3)

----------------------------------------------------------------------------
(* Properties of a Tail and its restarts *)

\* the source lines (indexes) at the end of h that share its last timestamp
TrailingIdxs(h) ==
    LET k == TrailingRun(h)
    IN  [j \in 1..k |-> h[Len(h) - k + j].idx]

\* the entry is of a line read to its end, not of the part of a line read
\* before the stream failed
Whole(e) == e.line = source[e.idx]

\* C1: fault-then-restart: when a freshly started Tail has consumed
\* well-formed lines, the last k >= 1 of them at the canonical timestamp T,
\* and its stream fails, GetResumeRequest returns {T, k}; a new Tail resumed
\* with that request on a stream that resends those k lines and then further
\* lines drops exactly the k resent lines and emits every further line that
\* passes the content filters.
C1_FaultThenRestart ==
    LET h1 == TailHist(1)
        h2 == TailHist(2)
        k  == TrailingRun(h1)
    IN  (/\ Len(tails) >= 2
         /\ h1 # <<>>
         /\ \A i \in 1..Len(h1) : Whole(h1[i]) /\ WellFormed(h1[i]))
        => /\ tails[2].carried = ResumeRequest(h1[Len(h1)].ts, k)
           /\ (/\ tails[2].openOK
               /\ Len(tails[2].stream) >= k
               /\ SubSeq(tails[2].stream, 1, k) = TrailingIdxs(h1))
              => \A j \in 1..Len(h2) :
                     Whole(h2[j]) =>
                         IF j <= k THEN h2[j].verdict = "skipped"
                         ELSE WellFormed(h2[j]) =>
                                  h2[j].verdict = IF PassesFilters(h2[j].content)
                                                  THEN "accepted" ELSE "filtered"

\* every Tail after the first was resumed with the request of the Tail that
\* failed before it
Resumed == \A n \in 2..Len(tails) : tails[n].installed

\* how many times source line idx was emitted whole
TimesEmitted(idx) ==
    Cardinality({i \in 1..Len(hist) :
                    /\ hist[i].idx = idx
                    /\ Whole(hist[i])
                    /\ hist[i].verdict = "accepted"})

\* C2: exactly-once resumption over any number of restarts: when each Tail
\* after the first is resumed with the GetResumeRequest of the Tail that
\* failed before it, and the source replays every line from the request's
\* timestamp on, no source line is emitted more than once, wherever the
\* resumed Tails fail (here for a source of UTC lines in timestamp order).
C2_ExactlyOnce ==
    (SourceOrderedUTC /\ Resumed)
        => \A idx \in 1..Len(source) : TimesEmitted(idx) <= 1

\* C3: no loss across a fault: after a transport error at any byte of the
\* stream and a resume in which the source replays from the watermark's
\* timestamp, every source line that passes the content filters has been
\* emitted with its complete content by the failed or the resumed Tail
\* (here for a source of UTC lines in timestamp order, once the resumed
\* Tail has read its stream to the end).
C3_NoLossAcrossFault ==
    (/\ SourceOrderedUTC
     /\ Len(tails) = 2
     /\ tails[2].installed
     /\ state = "Closed")
        => \A idx \in 1..Len(source) :
               LET content == splitLogLine(source[idx]).content
               IN  PassesFilters(content)
                       => \E i \in 1..Len(hist) :
                              /\ hist[i].idx = idx
                              /\ hist[i].verdict = "accepted"
                              /\ hist[i].content = content

----------------------------------------------------------------------------
(* Properties of the line codec and of the pipeline *)

\* C11: line splitting: for a line with a space, splitLogLine returns the
\* text before the first space as timestamp and the text after it as
\* content, with no error: timestamp, a space and content make up the line
\* again and the timestamp holds no space; for a line without a space it
\* returns an error, an empty timestamp and an empty content.
\* "2024-01-02T03:04:05.0Z hello" splits into the timestamp and "hello".
C11_LineSplitting ==
    fnOut # <<>> =>
        LET r == fnOut[1]
        IN  /\ IF Contains(fnIn, " ")
               THEN /\ ~ r.err
                    /\ MkLine(r.timestamp, r.content) = fnIn
                    /\ ~ Contains(r.timestamp, " ")
               ELSE r = [timestamp |-> <<>>, content |-> <<>>, err |-> TRUE]
            /\ fnIn = ExHello
                   => r.timestamp = ExTimestamp
                          /\ r.content = <<"h", "e", "l", "l", "o">>
            /\ fnIn = ExNotValid => r.err

C11_Witness ==
    /\ fnOut # <<>>
    /\ fnIn = <<"Z", " ", "a", " ">>
    /\ fnOut[1].content = <<"a", " ">>

\* the step passes a line without a space to consumeLine
ObservesMalformed ==
    Len(hist') = Len(hist) + 1 /\ ~ WellFormed(hist'[Len(hist')])

\* the line of the step, annotated and unhighlighted, as the sink holds it
AnnotatedRecord ==
    [msg |-> Annotated(MissingTimestamp, hist'[Len(hist')].line),
     highlight |-> FALSE, arrival |-> Len(hist')]

\* C12 as stated: a line that fails to parse is written to the output as
\* the original line prefixed with the bracketed error marker.
C12_Original ==
    [][ ObservesMalformed => out' = Append(out, AnnotatedRecord) ]_vars

\* C12 amended: a line that fails to parse is passed, prefixed with the
\* bracketed error marker, to PrintWithoutHighlight, which writes it to the
\* output when the template expands and writes the template's error to the
\* error output when it does not; the watermark and the resume request are
\* left as they were, nothing goes to the exporter, and when the line was
\* read whole the Tail goes on with the next line of the stream.
C12_MalformedLineSurvival ==
    [][ ObservesMalformed =>
            /\ IF sprintFails(opts, AnnotatedRecord.msg)
               THEN /\ out' = out
                    /\ errOut' = Append(errOut, "expanding template failed")
               ELSE /\ out' = Append(out, AnnotatedRecord)
                    /\ errOut' = errOut
            /\ otelOut' = otelOut
            /\ last' = last
            /\ resumeRequest' = resumeRequest
            /\ hist'[Len(hist')].eol
                   => state' = "Streaming" /\ stream' = Tail(stream) ]_vars

C12_Witness ==
    /\ Len(hist) = 2
    /\ hist[1].line = LineBad
    /\ hist[1].verdict = "malformed"
    /\ out # <<>>
    /\ out[1].msg = Annotated(MissingTimestamp, LineBad)
    /\ hist[2].verdict = "accepted"
    /\ Len(out) = 2

\* the well-formed lines of the source carry UTC ("Z") timestamps and are in
\* the order of their timestamps; lines without a timestamp may stand
\* anywhere among them
WellFormedOrderedUTC ==
    /\ \A i \in 1..Len(source) :
           LET sp == splitLogLine(source[i])
           IN  ~ sp.err => sp.timestamp # <<>> /\ sp.timestamp[Len(sp.timestamp)] = "Z"
    /\ NonDecreasing(CanonOf([i \in 1..Len(source) |-> i]))

\* the source lines (indexes) that the n-th Tail read whole and wrote to the
\* output or sent to the exporter
WrittenBy(n) ==
    {hist[r.arrival].idx :
        r \in {rec \in {out[i] : i \in 1..Len(out)}
                        \cup {otelOut[i] : i \in 1..Len(otelOut)} :
                    hist[rec.arrival].tail = n /\ Whole(hist[rec.arrival])}}

\* C13: resumption re-skips what was already delivered, for every kind of
\* delivered line: a Tail resumed with the request of the Tail that failed
\* before it writes none of the lines again that the failed Tail had read
\* whole and written, be it as a log line or as an annotated malformed line
\* (here for the first restart of a source whose well-formed lines are in
\* timestamp order).
C13_NothingWrittenAgain ==
    (WellFormedOrderedUTC /\ Len(tails) >= 2 /\ tails[2].installed)
        => WrittenBy(1) \cap WrittenBy(2) = {}

----------------------------------------------------------------------------
(* Properties of the Tail's life cycle *)

\* Close was called while Start was running, and Start has returned
StoppedWhileRunning ==
    /\ tails # <<>>
    /\ tails[1].closedWhen = "Streaming"
    /\ state \in {"Closed", "Faulted"}

\* C14: stop(): once Close has been called on a Tail whose Start is running,
\* Start returns nil on every path: the Tail ends Closed, not Faulted,
\* whatever the stream does concurrently with the cancellation.
C14_StopEndsClosed == StoppedWhileRunning => state = "Closed"

\* the Tail has passed each line of its stream to consumeLine, whole, once
\* and in the order of the stream
EveryLineOnce ==
    LET h == TailHist(tailNo)
    IN  /\ Len(h) = Len(tails[tailNo].stream)
        /\ \A i \in 1..Len(h) : h[i].idx = tails[tailNo].stream[i] /\ Whole(h[i])

\* C15: clean end of stream is terminal and not an error: when the stream
\* reaches EOF, Start returns nil (the Tail is Closed) after every line
\* received has been processed exactly once, a final line without a
\* newline included, and the Tail does nothing more.
C15_CleanEndOfStream ==
    /\ state = "Closed" => EveryLineOnce /\ ~ ENABLED NextTail
    /\ (state = "Streaming" /\ stream = <<>>) => EveryLineOnce

C15_Witness ==
    /\ state = "Closed"
    /\ Len(hist) = 2
    /\ hist[1].eol
    /\ ~ hist[2].eol
    /\ hist[2].line = LineB1
    /\ hist[2].verdict = "accepted"

\* the well-formed lines the current Tail has observed
Observed == SelectSeq(TailHist(tailNo), WellFormed)

\* a stream that fails to open makes Start return the error: the Tail is
\* Faulted and has read nothing
OpenFailureFaults ==
    (tails # <<>> /\ ~ tails[Len(tails)].openOK)
        => state = "Faulted" /\ TailHist(tailNo) = <<>>

\* C16 as stated: after Start has returned an error, GetResumeRequest is the
\* watermark {last timestamp, lines at it}, and it is nil exactly when the
\* Tail has observed no line with a non-empty timestamp.
C16_Original ==
    state = "Faulted" =>
        IF \E i \in 1..Len(Observed) : Observed[i].ts # <<>>
        THEN GetResumeRequest(last)
                 = ResumeRequest(Observed[Len(Observed)].ts, TrailingRun(Observed))
        ELSE GetResumeRequest(last) = NilRequest

\* C16 amended: a stream that fails to open or ends with an error other
\* than EOF makes Start return the error (Faulted); GetResumeRequest is then
\* nil when the Tail has observed no well-formed line or when the last one
\* it observed has an empty timestamp, and is otherwise the watermark: the
\* timestamp of the last well-formed line and the number of lines observed
\* in a row at it.
C16_FaultCarriesWatermark ==
    /\ OpenFailureFaults
    /\ state = "Faulted" =>
           IF Observed = <<>> \/ Observed[Len(Observed)].ts = <<>>
           THEN GetResumeRequest(last) = NilRequest
           ELSE GetResumeRequest(last)
                    = ResumeRequest(Observed[Len(Observed)].ts,
                                    TrailingRun(Observed))

C16_Witness ==
    /\ state = "Faulted"
    /\ Len(hist) = 2
    /\ hist[1].ts = CanonA
    /\ hist[2].line = LineNoTs
    /\ last = [timestamp |-> <<>>, lines |-> 1]
    /\ GetResumeRequest(last) = NilRequest

\* the caller resumes the Tail with a request whose timestamp is RFC3339
ResumesParsable == ~ carry.nil /\ ~ sinceTimeOf(carry).err

\* how many lines the current Tail has skipped
SkippedSoFar ==
    Len(SelectSeq(TailHist(tailNo), LAMBDA e : e.verdict = "skipped"))

\* C17: Resume with a request whose timestamp parses as RFC3339 opens the
\* stream with SinceTime equal to the request's timestamp and with
\* SinceSeconds and TailLines cleared, so the stream delivers every line of
\* the source that is not before the timestamp, and installs the request:
\* the skip stage counts the request down by every line it skips, and skips
\* only lines at the request's timestamp.
C17_ResumeOpensAtRequest ==
    (ResumesParsable /\ tails # <<>>) =>
        LET t == tails[Len(tails)]
            since == Time(ParseRFC3339(carry.Timestamp).time)
        IN  /\ t.options = LogOptions(NilInt, since, NilInt)
            /\ <<sinceSeconds, sinceTime, tailLines>> = <<NilInt, since, NilInt>>
            /\ t.openOK =>
                   t.stream = SelectSeq([i \in 1..Len(source) |-> i],
                                        LAMBDA i : Replayed(source[i], since))
            /\ t.request = carry
            /\ resumeRequest =
                   ResumeRequest(carry.Timestamp, carry.LinesToSkip - SkippedSoFar)
            /\ \A i \in 1..Len(hist) :
                   hist[i].verdict = "skipped" => hist[i].ts = carry.Timestamp

C17_Witness ==
    /\ ResumesParsable
    /\ carry = ResumeRequest(CanonA, 1)
    /\ source = <<LineA1, LineA2>>
    /\ tails # <<>>
    /\ tails[1].callerOptions = LogOptions(Int64(1), NilTime, Int64(1))
    /\ tails[1].stream = <<1, 2>>
    /\ Len(hist) = 2
    /\ hist[1].verdict = "skipped"
    /\ hist[2].verdict # "skipped"
    /\ resumeRequest = ResumeRequest(CanonA, 0)

\* the records of a sink stand in the order in which their lines arrived
InArrivalOrder(sink) ==
    \A i, j \in 1..Len(sink) : i < j => sink[i].arrival < sink[j].arrival

\* the lines reached consumeLine in the order of the stream
ArrivedInStreamOrder ==
    LET h == TailHist(tailNo)
    IN  \A i \in 1..Len(h) : h[i].idx = tails[tailNo].stream[i]

\* the record of the output is the rendering of the line of history entry e
RendersLine(rec, e) ==
        CASE e.verdict = "malformed" ->
                 rec.msg = Annotated(MissingTimestamp, e.line)
          [] e.verdict = "accepted" /\ ~ opts.timestamps ->
                 rec.msg = e.content
          [] e.verdict = "accepted" /\ opts.timestamps ->
                 \/ rec.msg = Annotated(ParseErrorText, e.line)
                 \/ /\ Len(rec.msg) > Len(e.content)
                    /\ SubSeq(rec.msg, Len(rec.msg) - Len(e.content) + 1,
                              Len(rec.msg)) = e.content
          [] OTHER -> FALSE

RendersItsLine(rec) == RendersLine(rec, hist[rec.arrival])

\* C18: per-target FIFO: within one Tail the emitted lines are a
\* subsequence of the lines in the order they arrived from the stream: the
\* lines reach consumeLine in stream order, and each sink holds the lines
\* written to it in the order of their arrival.
C18_FIFO ==
    /\ tails # <<>> => ArrivedInStreamOrder
    /\ InArrivalOrder(out)
    /\ InArrivalOrder(otelOut)
    /\ \A i \in 1..Len(out) : RendersItsLine(out[i])
    /\ \A i \in 1..Len(otelOut) :
           otelOut[i].Body = hist[otelOut[i].arrival].content

C18_Witness ==
    /\ source = ResumeExample
    /\ carry.nil
    /\ opts.exclude = {"x"}
    /\ ~ opts.otelEnabled
    /\ Len(hist) = 5
    /\ Len(out) = 4
    /\ out[2].arrival = 3

\* a sink is there to emit to: the output, or the exporter when
\* OpenTelemetry is enabled
SinkConfigured == ~ opts.otelEnabled \/ opts.hasExporter

\* how many records the sinks hold: the output, the exporter, and the
\* error output, to which a rendering that fails is written
SinkWrites(o, e, t) == Len(o) + Len(e) + Len(t)

Shown(e) ==
    LET upd == UpdateTimezoneAndFormat(splitLogLine(e.line).timestamp)
    IN  IF e.verdict = "malformed" THEN Annotated(MissingTimestamp, e.line)
        ELSE IF ~ opts.timestamps THEN e.content
        ELSE IF upd.err THEN Annotated(ParseErrorText, e.line)
        ELSE upd.text \o <<" ">> \o e.content

\* the step hands a line to the display sink, and the template cannot be
\* expanded for it
RenderingFails ==
    /\ Len(hist') = Len(hist) + 1
    /\ LET e == hist'[Len(hist')]
       IN  /\ \/ e.verdict = "malformed"
              \/ e.verdict = "accepted" /\ ~ opts.otelEnabled
           /\ sprintFails(opts, Shown(e))

\* C20: a display-sink failure is isolated to the line it concerns: when
\* rendering a line fails, the error is written to the error output and
\* nothing to the output, the watermark and the resume request are what
\* they are when rendering succeeds, and the Tail does not stop: when the
\* line was read whole, it goes on with the next line of the stream.
C20_RenderingFailureIsolated ==
    [][ RenderingFails =>
            LET e == hist'[Len(hist')]
            IN  /\ errOut' = Append(errOut, "expanding template failed")
                /\ out' = out
                /\ last' = IF WellFormed(e) THEN rememberLastTimestamp(last, e.ts)
                           ELSE last
                /\ resumeRequest' = IF WellFormed(e)
                                    THEN shouldSkip(resumeRequest, e.ts).r
                                    ELSE resumeRequest
                /\ e.eol => state' = "Streaming" /\ stream' = Tail(stream) ]_vars

C20_Witness ==
    /\ opts.tmplFails # {}
    /\ source = <<LineA2, LineA1>>
    /\ carry.nil
    /\ state = "Closed"
    /\ Len(hist) = 2
    /\ errOut = <<"+", "expanding template failed">>
    /\ Len(out) = 1
    /\ out[1].arrival = 2
    /\ last = [timestamp |-> CanonA, lines |-> 2]

----------------------------------------------------------------------------
(* C21: one "stopped" notification per terminated Tail *)

NotificationsOn == ~ opts.onlyLogLines /\ ~ opts.otelEnabled

\* how many "stopped" notifications the error output holds
Stopped == Len(SelectSeq(errOut, LAMBDA m : m = "-"))

\* C21: a Tail that has terminated for good (its Start has returned nil,
\* after Close or after a clean end of the stream) has produced exactly one
\* "stopped" notification when notifications are not suppressed, and no
\* Tail ever produces more than one.
C21_SingleStopped ==
    /\ Stopped <= 1
    /\ state = "Closed" /\ NotificationsOn => Stopped = 1

----------------------------------------------------------------------------
(* C22: one stream connection, closed when Start returns *)

\* Start has returned, with nil or with an error
StartReturned == state \in {"Closed", "Faulted"}

\* C22: a Tail never holds more than one open stream connection, holds
\* exactly one while it is streaming, and holds none once Start has
\* returned, whether the stream ended, a read failed or the read was
\* cancelled.
C22_OneStreamClosedOnReturn ==
    /\ conns <= 1
    /\ state = "Streaming" => conns = 1
    /\ StartReturned => conns = 0

\* Start has returned nil after its read was cancelled in the middle of a
\* line of a stream it had opened
C22_Witness ==
    /\ state = "Closed"
    /\ closed
    /\ tails[Len(tails)].openOK
    /\ hist # <<>>
    /\ ~ Whole(hist[Len(hist)])
    /\ conns = 0

----------------------------------------------------------------------------
(* C23: filtering applies before export *)

\* C23: a record is emitted to the exporter only by a call of consumeLine,
\* only with OpenTelemetry enabled, and only for a line that is well-formed,
\* is not skipped by the resume request, does not match the exclude filter
\* and matches the include filter; one call emits at most one record, whose
\* body is the content of the line, and no record is ever taken back.
C23_FilterBeforeExport ==
    [][ /\ Len(otelOut') >= Len(otelOut)
        /\ SubSeq(otelOut', 1, Len(otelOut)) = otelOut
        /\ Len(otelOut') # Len(otelOut) =>
               /\ Len(hist') = Len(hist) + 1
               /\ Len(otelOut') = Len(otelOut) + 1
               /\ opts.otelEnabled
               /\ LET e  == hist'[Len(hist')]
                      sp == splitLogLine(e.line)
                  IN  /\ ~ sp.err
                      /\ ~ shouldSkip(resumeRequest,
                                      removeSubsecond(sp.timestamp)).ret
                      /\ ~ IsExclude(opts, sp.content)
                      /\ IsInclude(opts, sp.content)
                      /\ otelOut'[Len(otelOut')].Body = sp.content
                      /\ otelOut'[Len(otelOut')].arrival = Len(hist') ]_vars

\* with export enabled and both filters set, a resumed Tail has skipped the
\* first line, filtered out the second and exported the other three
C23_Witness ==
    /\ opts.otelEnabled
    /\ opts.hasExporter
    /\ opts.exclude = {"x"}
    /\ opts.include = {"a"}
    /\ source = ResumeExample
    /\ carry = ResumeRequest(CanonA, 1)
    /\ Len(hist) = 5
    /\ hist[1].verdict = "skipped"
    /\ hist[2].verdict = "filtered"
    /\ Len(otelOut) = 3
    /\ otelOut[1].arrival = 3
    /\ out = <<>>

----------------------------------------------------------------------------
(* C28: mapSeverityToOTel *)

\* what C28 says a string maps to
ClaimedSeverity(s) ==
    CASE s \in Casings(SevDEBUG) -> "SeverityDebug"
      [] s \in Casings(SevINFO) -> "SeverityInfo"
      [] s \in Casings(SevWARN) \cup Casings(SevWARNING) -> "SeverityWarn"
      [] s \in Casings(SevERROR) -> "SeverityError"
      [] s \in Casings(SevFATAL) \cup Casings(SevCRITICAL) -> "SeverityFatal"
      [] OTHER -> "SeverityUndefined"

\* C28: mapSeverityToOTel is total and case-insensitive: DEBUG maps to
\* Debug, INFO to Info, WARN and WARNING to Warn, ERROR to Error, FATAL and
\* CRITICAL to Fatal, in any letter case, and every other string, the empty
\* string included, maps to Undefined.
C28_SeverityMapping ==
    fnOut # <<>> => fnOut[1] = ClaimedSeverity(fnIn)

\* "wArNiNg" has been mapped to Warn
C28_Witness ==
    /\ fnIn = <<"w", "A", "r", "N", "i", "N", "g">>
    /\ fnOut = <<"SeverityWarn">>

----------------------------------------------------------------------------
(* C27: deriveServiceName *)

\* the label is present with a non-empty value
PresentNonEmpty(labels, key) ==
    /\ ~ labels.nil
    /\ key \in DOMAIN labels.m
    /\ labels.m[key] # <<>>

\* the service labels in their order of preference
ServiceLabels == <<LabelName, LabelApp, LabelK8sApp>>

\* C27: deriveServiceName returns the value of the first of the labels
\* app.kubernetes.io/name, app, k8s-app that is present with a non-empty
\* value, and the pod name when none of them is, also for an empty and for a
\* nil label map.
C27_ServiceName ==
    fnOut # <<>> =>
        LET usable == {i \in 1..Len(ServiceLabels) :
                           PresentNonEmpty(fnIn.labels, ServiceLabels[i])}
        IN  IF usable = {} THEN fnOut[1] = fnIn.podName
            ELSE \E i \in usable :
                     /\ \A j \in usable : i <= j
                     /\ fnOut[1] = fnIn.labels.m[ServiceLabels[i]]

\* app.kubernetes.io/name is present but empty, app and k8s-app are set: the
\* value of app has been returned
C27_Witness ==
    /\ ~ fnIn.labels.nil
    /\ DOMAIN fnIn.labels.m = {LabelName, LabelApp, LabelK8sApp}
    /\ fnIn.labels.m[LabelName] = <<>>
    /\ fnIn.labels.m[LabelApp] = <<"x">>
    /\ fnIn.labels.m[LabelK8sApp] = <<"y">>
    /\ fnOut = << <<"x">> >>

----------------------------------------------------------------------------
(* C25, C26: parseStructuredLog *)

\* the first of the keys to which the object gives a string, or 0
FirstStringField(fields, keys) ==
    LET hits == {i \in 1..Len(keys) :
                     /\ keys[i] \in KeysOf(fields)
                     /\ ValueOf(fields, keys[i]).type = "string"}
    IN  IF hits = {} THEN 0 ELSE CHOOSE i \in hits : \A j \in hits : i <= j

MessageKeys == <<KeyMsg, KeyMessage, KeyMessageUpper>>

SeverityKeys == <<KeyLevel, KeySeverity, KeyLevelname>>

\* what C25 says parseStructuredLog returns for an object with these
\* fields, when whole is what "the whole body" stands for
StructuredResult(fields, whole) ==
    LET mi   == FirstStringField(fields, MessageKeys)
        si   == FirstStringField(fields, SeverityKeys)
        used == (IF mi = 0 THEN {} ELSE {MessageKeys[mi]})
                    \cup (IF si = 0 THEN {} ELSE {SeverityKeys[si]})
    IN  [message |-> IF mi = 0 THEN whole ELSE ValueOf(fields, MessageKeys[mi]).s,
         severity |-> IF si = 0 THEN <<>>
                      ELSE ToUpper(ValueOf(fields, SeverityKeys[si]).s),
         structuredAttrs |->
             Attrs([k \in KeysOf(fields) \ used |-> ValueOf(fields, k)]),
         isStructured |-> TRUE]

\* C25: for a body that parses as a JSON object, parseStructuredLog reports
\* isStructured = true; the message is the value of the first of the keys
\* msg, message, Message whose value is a string; the severity is the
\* upper-cased value of the first of the keys level, severity, levelname
\* whose value is a string; the keys used for the two are removed from the
\* returned attributes and every other top-level key is kept with its
\* value; when no message is extracted the message is the whole body.
C25_StructuredLog ==
    (fnOut # <<>> /\ fnIn.isObject) =>
        fnOut[1] = StructuredResult(fnIn.fields, fnIn.body)

\* C26: for every body that is not a JSON object (plain text, or text that
\* does not parse as JSON), parseStructuredLog returns the body itself,
\* unchanged, as the message, with an empty severity, nil attributes and
\* isStructured = false.
C26_PlainTextUnchanged ==
    (fnOut # <<>> /\ ~ fnIn.isObject) =>
        fnOut[1] = [message |-> fnIn.body, severity |-> <<>>,
                    structuredAttrs |-> NilAttrs, isStructured |-> FALSE]

----------------------------------------------------------------------------
(* C24: EmitLog *)

\* how many attributes of the list have the key
CountKey(attrs, key) == Cardinality({i \in 1..Len(attrs) : attrs[i].Key = key})

HasAttr(attrs, kv) == \E i \in 1..Len(attrs) : attrs[i] = kv

\* the keys C24 lists, each with the number of attributes that have it: key
\* is counted once for each part of the list that calls for it
ClaimedCount(record, key) ==
    LET fields == parseStructuredLog(record.Body)
        One(cond) == IF cond THEN 1 ELSE 0
    IN  One(key = AttrServiceName)
            + One(key = AttrNamespace /\ record.Namespace # <<>>)
            + One(key = AttrPodName /\ record.PodName # <<>>)
            + One(key = AttrContainerName /\ record.ContainerName # <<>>)
            + One(key = AttrHostName /\ record.NodeName # <<>>)
            + One(key = AttrNodeName /\ record.NodeName # <<>>)
            + Cardinality({k \in DOMAIN record.Labels.m : key = LabelPrefix \o k})
            + Cardinality({k \in DOMAIN record.Annotations.m :
                               key = AnnotationPrefix \o k})
            + One(fields.isStructured /\ key \in DOMAIN fields.structuredAttrs.m)

\* every key C24 lists for the record
ClaimedKeys(record) ==
    {AttrServiceName, AttrNamespace, AttrPodName, AttrContainerName,
     AttrHostName, AttrNodeName}
        \cup {LabelPrefix \o k : k \in DOMAIN record.Labels.m}
        \cup {AnnotationPrefix \o k : k \in DOMAIN record.Annotations.m}
        \cup DOMAIN parseStructuredLog(record.Body).structuredAttrs.m

\* C24: one call of EmitLog hands the logger exactly one record; its body is
\* the message parseStructuredLog extracts; its severity is set exactly when
\* a severity was extracted, to what mapSeverityToOTel maps it to; its
\* attributes are service.name, always, k8s.namespace.name, k8s.pod.name and
\* k8s.container.name each exactly when the field is not empty, host.name
\* and k8s.node.name exactly when NodeName is not empty, one
\* k8s.pod.label.<key> per label, one k8s.pod.annotation.<key> per
\* annotation and one attribute per remaining structured field, and no other.
C24_EmitLog ==
    fnOut # <<>> =>
        LET r      == fnOut[1]
            parsed == parseStructuredLog(fnIn.Body)
        IN  /\ Len(fnOut) = 1
            /\ r.Timestamp = fnIn.Timestamp
            /\ r.Body = StringValue(parsed.message)
            /\ r.SeveritySet <=> parsed.severity # <<>>
            /\ r.SeveritySet => r.Severity = mapSeverityToOTel(parsed.severity)
            /\ \A i \in 1..Len(r.Attributes) :
                   r.Attributes[i].Key \in ClaimedKeys(fnIn)
            /\ \A key \in ClaimedKeys(fnIn) :
                   CountKey(r.Attributes, key) = ClaimedCount(fnIn, key)
            /\ HasAttr(r.Attributes,
                       LogString(AttrServiceName,
                                 deriveServiceName(fnIn.Labels, fnIn.PodName)))
            /\ fnIn.Namespace # <<>> =>
                   HasAttr(r.Attributes, LogString(AttrNamespace, fnIn.Namespace))
            /\ fnIn.PodName # <<>> =>
                   HasAttr(r.Attributes, LogString(AttrPodName, fnIn.PodName))
            /\ fnIn.ContainerName # <<>> =>
                   HasAttr(r.Attributes,
                           LogString(AttrContainerName, fnIn.ContainerName))
            /\ fnIn.NodeName # <<>> =>
                   /\ HasAttr(r.Attributes, LogString(AttrHostName, fnIn.NodeName))
                   /\ HasAttr(r.Attributes, LogString(AttrNodeName, fnIn.NodeName))
            /\ \A k \in DOMAIN fnIn.Labels.m :
                   HasAttr(r.Attributes,
                           LogString(LabelPrefix \o k, fnIn.Labels.m[k]))
            /\ \A k \in DOMAIN fnIn.Annotations.m :
                   HasAttr(r.Attributes,
                           LogString(AnnotationPrefix \o k, fnIn.Annotations.m[k]))

\* a structured record of a pod with a node, two labels and two annotations
\* has been emitted with its severity set and eleven attributes
C24_Witness ==
    /\ parseStructuredLog(fnIn.Body).severity = SevINFO
    /\ fnIn.Namespace # <<>>
    /\ fnIn.PodName # <<>>
    /\ fnIn.ContainerName # <<>>
    /\ fnIn.NodeName # <<>>
    /\ Cardinality(DOMAIN fnIn.Labels.m) = 2
    /\ Cardinality(DOMAIN fnIn.Annotations.m) = 2
    /\ Len(fnOut) = 1
    /\ fnOut[1].SeveritySet
    /\ fnOut[1].Severity = "SeverityInfo"
    /\ fnOut[1].Body = StringValue(<<"h", "i">>)
    /\ Len(fnOut[1].Attributes) = 11

\* the Tails that stream, that wait for a slot, and that hold one
StreamingTails == {i \in Tasks : Task(i).phase = "Streaming"}

WaitingTails == {i \in Tasks : Task(i).phase = "Waiting"}

SlotHolders == {i \in Tasks : Task(i).holds}

\* C29: after any sequence of target additions, removals, faults and
\* restarts at most maxConcurrentTails Tails are Streaming at once; a Tail
\* beyond the budget waits, it can start exactly when fewer than
\* maxConcurrentTails slots are held, and it starts only then; no Tail that
\* waits is dropped: it stays waiting until it starts, or until its Target is
\* removed.
C29_BoundedConcurrency ==
    /\ [](/\ Cardinality(StreamingTails) <= maxConcurrentTails
          /\ \A i \in WaitingTails :
                 ENABLED StartTail(i)
                     <=> Cardinality(SlotHolders) < maxConcurrentTails)
    /\ [][/\ \A t \in Targets : Len(tailTasks'[t]) >= Len(tailTasks[t])
          /\ \A i \in WaitingTails :
                 tailTasks'[i[1]][i[2]].phase # "Waiting" =>
                     \/ /\ tailTasks'[i[1]][i[2]].phase = "Streaming"
                        /\ Cardinality(SlotHolders) < maxConcurrentTails
                     \/ /\ tailTasks'[i[1]][i[2]].phase = "Cancelled"
                        /\ targetMap[i[1]] = i[2]
                        /\ targetMap'[i[1]] = 0]_vars

\* the budget is used up by two Streaming Tails and the Tail of a third
\* Target waits, after an earlier Tail has ended and released its slot
C29_Witness ==
    /\ Cardinality(StreamingTails) = maxConcurrentTails
    /\ permits = 0
    /\ \E i \in WaitingTails : Task(i).restartOf = 0
    /\ \E i \in Tasks : /\ Task(i).phase \in {"Closed", "Faulted"}
                        /\ ~Task(i).holds
    /\ Cardinality({t \in Targets : tailTasks[t] # <<>>}) = 3

\* the Tails that restart the Tail, if any
Successors(i) ==
    {j \in Tasks : j[1] = i[1] /\ Task(j).restartOf = i[2]}

\* the ResumeRequest of a Tail with the watermark: none when no line was
\* observed, otherwise the watermark's timestamp and line count
RequestOf(l, request) ==
    IF l.timestamp = <<>> THEN request.nil
    ELSE /\ ~request.nil
         /\ request.Timestamp = l.timestamp
         /\ request.LinesToSkip = l.lines

\* C30: a Tail that is Faulted can release its slot while it holds it; once
\* the slot is released, and for as long as the Tail is the one tracked for
\* its Target, it can be restarted, however many restarts came before; a
\* restart carries the ResumeRequest of the faulted Tail and re-enters the
\* admission queue; every restart restarts a Faulted Tail that has released
\* its slot and was tracked for its Target when the restart was made, so
\* that a Tail whose Target has been removed, or that ended Closed, is never
\* restarted, and no Tail is restarted twice.
C30_RestartOnFault ==
    /\ [](\A i \in Tasks :
              /\ (Task(i).phase = "Faulted" /\ Task(i).holds)
                     => ENABLED ReleaseSlot(i)
              /\ (/\ Task(i).phase = "Faulted"
                  /\ ~Task(i).holds
                  /\ Tracked(i)
                  /\ Successors(i) = {})
                     => ENABLED RestartTail(i)
              /\ Successors(i) # {} =>
                     /\ Task(i).phase = "Faulted"
                     /\ ~Task(i).holds
                     /\ Cardinality(Successors(i)) = 1
                     /\ \A j \in Successors(i) :
                            RequestOf(Task(i).last, Task(j).carried))
    /\ [][\A t \in Targets :
              Len(tailTasks'[t]) > Len(tailTasks[t]) =>
                  LET new == tailTasks'[t][Len(tailTasks'[t])]
                  IN  /\ Len(tailTasks'[t]) = Len(tailTasks[t]) + 1
                      /\ new.phase = "Waiting"
                      /\ new.restartOf # 0 =>
                             /\ new.restartOf = targetMap[t]
                             /\ ~tailTasks[t][new.restartOf].stop
                             /\ tailTasks[t][new.restartOf].phase = "Faulted"
                             /\ targetMap'[t] = Len(tailTasks'[t])]_vars

\* a Tail has been restarted twice, the second time with a ResumeRequest,
\* while a Tail that ended Closed has released its slot and has not been
\* restarted
C30_Witness ==
    /\ \E j \in Tasks :
           /\ Task(j).restartOf # 0
           /\ ~Task(j).carried.nil
           /\ Task(<<j[1], Task(j).restartOf>>).restartOf # 0
    /\ \E i \in Tasks :
           /\ Task(i).phase = "Closed"
           /\ ~Task(i).holds
           /\ Successors(i) = {}

\* C32: in OTel-only mode (otelEnabled true) nothing is written to the
\* display writer out, whatever the lines and the options are.
C32_OTelOnlyWritesNothingToOut ==
    opts.otelEnabled => out = <<>>

\* the caller resumes the Tail with a request whose timestamp is no RFC3339
ResumesUnparsable == ~ carry.nil /\ ParseRFC3339(carry.Timestamp).err

\* C33: Resume with a request whose timestamp does not parse as RFC3339
\* writes the failure to the error output first and then does what Start
\* does: the Tail's resume request stays unset and no line is skipped,
\* Options.SinceTime, Options.SinceSeconds and Options.TailLines stay what
\* the caller set, and the stream is opened with them.
C33_ResumeFallsBackToStart ==
    (ResumesUnparsable /\ tails # <<>>) =>
        LET t == tails[Len(tails)]
        IN  /\ errOut # <<>> /\ Head(errOut) = "failed to resume"
            /\ SubSeq(errOut, 2, 1 + Len(printStarting(opts)))
                   = printStarting(opts)
            /\ t.request.nil
            /\ resumeRequest.nil
            /\ \A i \in 1..Len(hist) : hist[i].verdict # "skipped"
            /\ t.options = t.callerOptions
            /\ LogOptions(sinceSeconds, sinceTime, tailLines) = t.callerOptions
            /\ t.openOK => t.stream = OpenLogStream(source, t.callerOptions)

\* a Tail resumed with the request {"2024-01-02T03:04:05", 1}, whose
\* timestamp has no zone, by a caller that set SinceSeconds and TailLines,
\* has read a line of the second 03:04:06Z and has not skipped it
C33_Witness ==
    /\ carry = ResumeRequest(NoZone, 1)
    /\ tails # <<>>
    /\ sinceSeconds = Int64(1)
    /\ tailLines = Int64(1)
    /\ \E i \in 1..Len(hist) :
           hist[i].ts = CanonB /\ hist[i].verdict = "accepted"

\* C34: a call of consumeLine on a line without a space leaves the watermark
\* (timestamp and line count) and the pending resume request unchanged.
C34_MalformedLineLeavesTracker ==
    [][(/\ Len(hist') = Len(hist) + 1
        /\ ~ Contains(hist'[Len(hist')].line, " "))
           => /\ last' = last
              /\ resumeRequest' = resumeRequest]_vars

\* a Tail resumed with a request of two lines has skipped one line, so that
\* its watermark counts one line and one line is still to skip, and has then
\* processed a line without a space
C34_Witness ==
    /\ hist # <<>>
    /\ ~ Contains(hist[Len(hist)].line, " ")
    /\ hist[Len(hist)].verdict = "malformed"
    /\ last.timestamp # <<>>
    /\ last.lines = 1
    /\ ~ resumeRequest.nil
    /\ resumeRequest.LinesToSkip = 1

\* C35: every call of consumeLine on a well-formed line that is neither
\* skipped nor filtered out writes to the OTel exporter or to the display
\* writer, whatever otelEnabled, the exporter (nil or not) and Timestamps are.
C35_AcceptedLineReachesASink ==
    [][(/\ Len(hist') = Len(hist) + 1
        /\ hist'[Len(hist')].verdict = "accepted")
           => \/ Len(out') = Len(out) + 1
              \/ Len(otelOut') = Len(otelOut) + 1]_vars

\* the service, host and Kubernetes keys, and the value the pod metadata
\* gives each of them
MetadataKeys ==
    {AttrServiceName, AttrHostName, AttrNamespace, AttrPodName,
     AttrContainerName, AttrNodeName}

MetadataValue(record, key) ==
    CASE key = AttrServiceName ->
             deriveServiceName(record.Labels, record.PodName)
      [] key \in {AttrHostName, AttrNodeName} -> record.NodeName
      [] key = AttrNamespace -> record.Namespace
      [] key = AttrPodName -> record.PodName
      [] key = AttrContainerName -> record.ContainerName

\* C36: whatever fields the log body holds, the attribute list EmitLog
\* builds holds each of service.name, host.name, k8s.namespace.name,
\* k8s.pod.name, k8s.container.name and k8s.node.name at most once, and
\* with the value of the pod metadata: the attributes with these keys are a
\* function of the metadata alone.
C36_MetadataAttributesFromPodOnly ==
    fnOut # <<>> =>
        LET attrs == fnOut[1].Attributes
        IN  \A key \in MetadataKeys :
                /\ CountKey(attrs, key) <= 1
                /\ \A i \in 1..Len(attrs) :
                       attrs[i].Key = key =>
                           attrs[i].Value
                               = StringValue(MetadataValue(fnIn, key))

\* C37: no call of Close panics, in whatever state the Tail is and however
\* the call is interleaved with Start: before Start, while Start streams,
\* after Start has returned, and after an earlier Close of the same Tail.
C37_CloseNeverPanics ==
    state # "Panicked"

\* the pod of a Target
PodOf(t) ==
    CHOOSE p \in Pods : \E k \in 1..Len(ContainersOf(p)) : ContainersOf(p)[k] = t

\* the step is an update of pod p that leaves the match outcome of each of
\* its containers as it was
UnrelatedUpdate(p) ==
    /\ pods[p].present
    /\ pods'[p].present
    /\ pods'[p] # pods[p]
    /\ \A k \in 1..Len(ContainersOf(p)) :
           Matches(pods'[p], ContainersOf(p)[k])
               = Matches(pods[p], ContainersOf(p)[k])

\* a Tail that streams and has not been asked to stop
Healthy(i) == Task(i).phase = "Streaming" /\ ~Task(i).stop

\* C31: a pod update that changes the match outcome of none of the pod's
\* containers emits no notification and leaves the Tail Manager, its Tails
\* and what the Target Watcher tracks as they were; a healthy Tail is asked
\* to stop only by the step that consumes a TargetRemoved of its Target, is
\* restarted by no step, and the Target Watcher tracks exactly the containers
\* that match, so that a notification waiting for the Tail Manager always
\* tells of a changed match outcome.
C31_UnrelatedUpdateEmitsNothing ==
    /\ [](/\ \A t \in Targets :
                 /\ watched[t].present = Matches(pods[PodOf(t)], t)
                 /\ watched[t].present => Matches(watched[t], t)
          /\ \A k \in 1..Len(notifications) :
                 /\ (notifications[k].kind = "TargetAdded")
                        = Matches(pods[PodOf(notifications[k].target)],
                                  notifications[k].target)
                 /\ notifications[k].kind \in {"TargetAdded", "TargetRemoved"})
    /\ [][/\ \A p \in Pods :
                 UnrelatedUpdate(p) =>
                     /\ notifications = <<>>
                     /\ notifications' = <<>>
                     /\ watched' = watched
                     /\ mgrVars' = mgrVars
          /\ \A i \in Tasks :
                 Healthy(i) =>
                     /\ tailTasks'[i[1]][i[2]].stop =>
                            /\ notifications # <<>>
                            /\ Head(notifications)
                                   = [kind |-> "TargetRemoved",
                                      target |-> i[1]]
                            /\ notifications' = Tail(notifications)
                     /\ \A k \in 1..Len(tailTasks'[i[1]]) :
                            tailTasks'[i[1]][k].restartOf # i[2]]_vars

\* the Tail started for container app streams, has never been stopped or
\* restarted, and the pod's annotation is no longer the one of the
\* snapshot taken when the Target was discovered
C31_Witness ==
    /\ watched["t1"].present
    /\ pods["p1"].annotations # watched["t1"].annotations
    /\ notifications = <<>>
    /\ Len(tailTasks["t1"]) = 1
    /\ Healthy(<<"t1", 1>>)
    /\ targetMap["t1"] = 1

====
